---- MODULE Spec2Model ----
(***************************************************************************)
(* Model of the candidate generation engine of Project-Advanced_CWL:       *)
(* SmartHumanPasswordGenerator (main_Cli.py, Gui/v2.py) and the stratified *)
(* samplers of old_versions/Var3.py and Var4.py.                           *)
(*                                                                         *)
(* A Python str is modelled as a sequence of one-character strings, so     *)
(* that len, slicing, concatenation and per-character tests are computed   *)
(* as the code computes them.  A Python set is a TLA+ set.                 *)
(***************************************************************************)
EXTENDS Integers, Sequences, FiniteSets, TLC

\* ------------------------------------------------------------------------
\* Characters (printable ASCII) and the str methods the code uses
\* ------------------------------------------------------------------------

\* The printable ASCII characters in code-point order; ASCII[i] has code 31+i.
\* The quote, double quote, backslash and grave accent, which no table of the
\* program holds, are written as named placeholders.
ASCII ==
  <<
     " ", "!", "<dquote>", "#", "$", "%", "&", "<quote>", "(", ")", "*", "+", ",", "-", ".", "/",
     "0", "1", "2", "3", "4", "5", "6", "7", "8", "9", ":", ";", "<", "=", ">", "?",
     "@", "A", "B", "C", "D", "E", "F", "G", "H", "I", "J", "K", "L", "M", "N", "O",
     "P", "Q", "R", "S", "T", "U", "V", "W", "X", "Y", "Z", "[", "<bslash>", "]", "^", "_",
     "<grave>", "a", "b", "c", "d", "e", "f", "g", "h", "i", "j", "k", "l", "m", "n", "o",
     "p", "q", "r", "s", "t", "u", "v", "w", "x", "y", "z", "{", "|", "}", "~"
  >>

Ord == [c \in {ASCII[i] : i \in 1..Len(ASCII)} |-> 31 + (CHOOSE i \in 1..Len(ASCII) : ASCII[i] = c)]

DigitChars == {"0", "1", "2", "3", "4", "5", "6", "7", "8", "9"}

LowerChars == {ASCII[i] : i \in 66..91}

UpperChars == {ASCII[i] : i \in 34..59}

AlphaChars == LowerChars \cup UpperChars

\* str.isdigit / str.isalpha / str.isupper / str.islower on one character
IsDigit(c) == c \in DigitChars

IsAlpha(c) == c \in AlphaChars

IsUpper(c) == c \in UpperChars

IsLower(c) == c \in LowerChars

\* str.lower / str.upper on one character
LowerChar(c) == IF c \in UpperChars THEN ASCII[Ord[c] - 31 + 32] ELSE c

UpperChar(c) == IF c \in LowerChars THEN ASCII[Ord[c] - 31 - 32] ELSE c

\* str.lower()
Lower(s) == [i \in 1..Len(s) |-> LowerChar(s[i])]

\* str.title(): a cased character is upper-cased when the character before
\* it is not cased and lower-cased otherwise
Title(s) ==
  [i \in 1..Len(s) |->
     IF i > 1 /\ IsAlpha(s[i-1]) THEN LowerChar(s[i]) ELSE UpperChar(s[i])]

\* str.capitalize(): first character upper-cased, the rest lower-cased
Capitalize(s) ==
  [i \in 1..Len(s) |-> IF i = 1 THEN UpperChar(s[i]) ELSE LowerChar(s[i])]

\* c in s
HasChar(s, c) == \E i \in 1..Len(s) : s[i] = c

\* any(ch in set for ch in s)
HasAny(s, set) == \E i \in 1..Len(s) : s[i] \in set

\* the slice s[a:b] of Python (0-based, end exclusive, clipped to the string)
Slice(s, a, b) ==
  LET hi == IF b > Len(s) THEN Len(s) ELSE b
  IN  IF a >= hi THEN <<>> ELSE SubSeq(s, a + 1, hi)

\* s[0] if s else the empty string
Initial(s) == IF s = <<>> THEN <<>> ELSE <<s[1]>>

\* str.replace(old, new) for one-character old and new
ReplaceChar(s, old, new) == [i \in 1..Len(s) |-> IF s[i] = old THEN new ELSE s[i]]

\* re.split(r'[<seps>]', s): the pieces of s between separator characters
RECURSIVE ReSplit(_, _)
ReSplit(s, seps) ==
  IF \A i \in 1..Len(s) : s[i] \notin seps THEN <<s>>
  ELSE LET k == CHOOSE i \in 1..Len(s) :
                   s[i] \in seps /\ \A j \in 1..(i-1) : s[j] \notin seps
       IN  <<SubSeq(s, 1, k - 1)>> \o ReSplit(SubSeq(s, k + 1, Len(s)), seps)

\* re.search(r'\d+$', s).start(): 0-based index where the trailing run of
\* digits starts; Len(s) when s does not end in a digit (no match)
TrailingDigitsStart(s) ==
  CHOOSE k \in 0..Len(s) :
    /\ \A i \in (k+1)..Len(s) : IsDigit(s[i])
    /\ (k = 0 \/ ~IsDigit(s[k]))

\* re.search(r'[<set>]{n,}', s): s holds a run of n or more characters of set
HasRun(s, set, n) ==
  LET hits == {i \in 1..Len(s) : s[i] \in set}
  IN  /\ Cardinality(hits) >= n
      /\ \E i \in hits : \A j \in 1..(n - 1) : (i + j) \in hits

\* Python's str ordering: by code point, a proper prefix first
StrLess(a, b) ==
  \/ /\ Len(a) < Len(b)
     /\ SubSeq(b, 1, Len(a)) = a
  \/ \E i \in 1..(IF Len(a) < Len(b) THEN Len(a) ELSE Len(b)) :
        /\ Ord[a[i]] < Ord[b[i]]
        /\ \A j \in 1..(i-1) : a[j] = b[j]

\* the key of main's sorted(filtered, key=lambda x: (len(x), x))
LenLexLess(a, b) == Len(a) < Len(b) \/ (Len(a) = Len(b) /\ StrLess(a, b))

Range(f) == {f[i] : i \in DOMAIN f}

\* seqs[lo] \o ... \o seqs[hi]
RECURSIVE Concat(_, _, _)
Concat(seqs, lo, hi) ==
  IF lo > hi THEN <<>>
  ELSE IF lo = hi THEN seqs[lo]
  ELSE Concat(seqs, lo, (lo + hi) \div 2) \o Concat(seqs, (lo + hi) \div 2 + 1, hi)

Reverse(s) == [i \in 1..Len(s) |-> s[Len(s) + 1 - i]]

\* the member of a set of one; TheOne({e : x \in {d}}) is e with x standing for
\* the value of d, which is then computed once however often e uses it
TheOne(S) == CHOOSE x \in S : TRUE

\* a set of at most one string as a list
ListOfOne(S) == IF S = {} THEN <<>> ELSE <<CHOOSE s \in S : TRUE>>

\* the first position from p on at which two strings of S (of one length,
\* not all equal) differ
FirstDifference(S, p) ==
  TheOne({ CHOOSE i \in p..Len(one) :
             /\ \E s \in S : s[i] # one[i]
             /\ \A j \in p..(i - 1) : \A s \in S : s[j] = one[j]
           : one \in {TheOne(S)} })

\* The strings of S, which have one length and agree before position p, in
\* code-point order: grouped by the character at the first position q where
\* they differ, groups in ASCII order.
RECURSIVE SortedFrom(_, _)
SortedGroups(S, q) ==
  TheOne({ [i \in 1..Len(heads) |-> SortedFrom({s \in S : s[q] = heads[i]}, q + 1)]
           : heads \in { TheOne({ SelectSeq(ASCII, LAMBDA c : c \in present)
                                   : present \in {{s[q] : s \in S}} }) } })

SortedFrom(S, p) ==
  TheOne({ IF Cardinality(T) <= 1 THEN ListOfOne(T)
           ELSE TheOne({ Concat(groups, 1, Len(groups))
                         : groups \in { TheOne({ SortedGroups(T, q)
                                                 : q \in {FirstDifference(T, from)} }) } })
           : T \in {S}, from \in {p} })

\* the largest of a set of numbers
Max(N) == CHOOSE m \in N : \A k \in N : k <= m

\* the lengths of the strings of S, ascending
LengthsOf(S) ==
  TheOne({ SelectSeq([i \in 1..(Max(lens) + 1) |-> i - 1], LAMBDA k : k \in lens)
           : lens \in {{Len(s) : s \in S}} })

\* sorted(S, key=lambda x: (len(x), x))
SortedByLenLex(S) ==
  IF S = {} THEN <<>>
  ELSE TheOne({ Concat(groups, 1, Len(groups))
                : groups \in { TheOne({ [i \in 1..Len(ks) |->
                                           SortedFrom({s \in T : Len(s) = ks[i]}, 1)]
                                         : ks \in {LengthsOf(T)} })
                                : T \in {S} } })

\* The strings of S, which agree before position p, in code-point order: the
\* string that ends before p (a prefix of all the others) first, then the
\* groups by the character at p in ASCII order.
RECURSIVE SortedLexFrom(_, _)
SortedLexFrom(S, p) ==
  IF S = {} THEN <<>>
  ELSE IF Cardinality(S) = 1 THEN <<CHOOSE s \in S : TRUE>>
  ELSE LET ended == {s \in S : Len(s) < p}
           rest == S \ ended
           present == {s[p] : s \in rest}
           heads == SelectSeq(ASCII, LAMBDA c : c \in present)
       IN  ListOfOne(ended) \o
           Concat([i \in 1..Len(heads) |->
                     SortedLexFrom({s \in rest : s[p] = heads[i]}, p + 1)],
                  1, Len(heads))

\* list.sort() on a list of distinct str
SortedLex(S) == SortedLexFrom(S, 1)

\* ------------------------------------------------------------------------
\* dict helpers: a Python dict is a function; a missing key is outside DOMAIN
\* ------------------------------------------------------------------------

EmptyDict == [k \in {} |-> <<>>]

\* d.get(k, default)
Get(d, k, default) == IF k \in DOMAIN d THEN d[k] ELSE default

\* ------------------------------------------------------------------------
\* SmartHumanPasswordGenerator.__init__: the static tables
\* ------------------------------------------------------------------------

common_specials == <<"!", "@", "#", "$", "%", "&", "*", "_", ".", "-">>

common_numbers ==
  << <<"1","2","3">>, <<"1","2","3","4">>, <<"1","2","3","4","5">>,
     <<"1","2","3","4","5","6">>,
     <<"3","2","1">>, <<"4","3","2","1">>, <<"5","4","3","2","1">>,
     <<"1","1","1">>, <<"2","2","2">>, <<"3","3","3">>, <<"4","4","4">>,
     <<"5","5","5">>,
     <<"6","6","6">>, <<"7","7","7">>, <<"8","8","8">>, <<"9","9","9">>,
     <<"0","0","7">>, <<"1","0","0">>, <<"2","0","0">>, <<"3","0","0">>,
     <<"6","9">>, <<"4","2","0">>, <<"7","7","7">>, <<"8","8","8">>,
     <<"0","1">>, <<"0","2">>, <<"0","3">>, <<"0","4">>, <<"0","5">>,
     <<"1","0">>, <<"2","0">>, <<"3","0">>, <<"4","0">>, <<"5","0">>,
     <<"9","9">>, <<"8","8">>, <<"7","7">>, <<"6","6">>,
     <<"1","1","1","1">>, <<"2","2","2","2">>, <<"3","3","3","3">>,
     <<"4","4","4","4">>,
     <<"0","0","0","0">>, <<"1","1","1","1","1">>, <<"2","2","2","2","2">> >>

\* leet_map in the dict's iteration (insertion) order
leet_map ==
  << [char |-> "a", subs |-> <<"4", "@">>],
     [char |-> "e", subs |-> <<"3">>],
     [char |-> "i", subs |-> <<"1", "!">>],
     [char |-> "o", subs |-> <<"0">>],
     [char |-> "s", subs |-> <<"5", "$">>],
     [char |-> "t", subs |-> <<"7">>] >>

\* the character class [!@#$%^&*] of analyze_and_filter and of the samplers
FilterSpecials == {"!", "@", "#", "$", "%", "^", "&", "*"}

human_patterns ==
  <<
    <<[slot |-> "first"], [slot |-> "last"]>>,  \* {first}{last}
    <<[slot |-> "last"], [slot |-> "first"]>>,  \* {last}{first}
    <<[slot |-> "first"], [slot |-> "last"], [slot |-> "year"]>>,  \* {first}{last}{year}
    <<[slot |-> "last"], [slot |-> "first"], [slot |-> "year"]>>,  \* {last}{first}{year}
    <<[slot |-> "first"], [slot |-> "last_initial"], [slot |-> "year"]>>,  \* {first}{last_initial}{year}
    <<[slot |-> "first_initial"], [slot |-> "last"], [slot |-> "year"]>>,  \* {first_initial}{last}{year}
    <<[slot |-> "first"], [slot |-> "last"], [slot |-> "day"], [slot |-> "month"]>>,  \* {first}{last}{day}{month}
    <<[slot |-> "first"], [slot |-> "last"], [slot |-> "month"], [slot |-> "year"]>>,  \* {first}{last}{month}{year}
    <<[slot |-> "first"], [slot |-> "last"], [slot |-> "year_short"]>>,  \* {first}{last}{year_short}
    <<[slot |-> "first"], [slot |-> "year"]>>,  \* {first}{year}
    <<[slot |-> "last"], [slot |-> "year"]>>,  \* {last}{year}
    <<[slot |-> "nick"], [slot |-> "year"]>>,  \* {nick}{year}
    <<[slot |-> "nick"], [slot |-> "birth_day"]>>,  \* {nick}{birth_day}
    <<[slot |-> "nick"], [slot |-> "birth_month"]>>,  \* {nick}{birth_month}
    <<[slot |-> "nick"], [slot |-> "birth_day"], [slot |-> "birth_month"]>>,  \* {nick}{birth_day}{birth_month}
    <<[slot |-> "last"], [slot |-> "first"], [slot |-> "year_short"]>>,  \* {last}{first}{year_short}
    <<[slot |-> "year"], [slot |-> "first"], [slot |-> "last"]>>,  \* {year}{first}{last}
    <<[slot |-> "first"], [lit |-> <<".">>], [slot |-> "last"], [slot |-> "year_short"]>>,  \* {first}.{last}{year_short}
    <<[slot |-> "first"], [lit |-> <<"_">>], [slot |-> "last"], [slot |-> "year"]>>,  \* {first}_{last}{year}
    <<[slot |-> "first"], [slot |-> "special"], [slot |-> "last"], [slot |-> "year"]>>,  \* {first}{special}{last}{year}
    <<[slot |-> "first"], [slot |-> "last"], [slot |-> "special"], [slot |-> "year"]>>,  \* {first}{last}{special}{year}
    <<[slot |-> "first"], [slot |-> "last"], [lit |-> <<"1", "2", "3">>]>>,  \* {first}{last}123
    <<[slot |-> "first"], [slot |-> "last"], [lit |-> <<"1", "2", "3", "4">>]>>,  \* {first}{last}1234
    <<[slot |-> "first"], [slot |-> "last"], [lit |-> <<"1", "2", "3", "4", "5">>]>>,  \* {first}{last}12345
    <<[slot |-> "first"], [slot |-> "last"], [lit |-> <<"!">>]>>,  \* {first}{last}!
    <<[slot |-> "first"], [slot |-> "last"], [lit |-> <<"!", "!">>]>>,  \* {first}{last}!!
    <<[slot |-> "first"], [slot |-> "last"], [lit |-> <<"?">>]>>,  \* {first}{last}?
    <<[slot |-> "first"], [slot |-> "spouse_initial"], [slot |-> "year"]>>,  \* {first}{spouse_initial}{year}
    <<[slot |-> "child_name"], [slot |-> "year"]>>,  \* {child_name}{year}
    <<[slot |-> "pet_name"], [slot |-> "year"]>>,  \* {pet_name}{year}
    <<[slot |-> "first"], [slot |-> "birth_day"]>>,  \* {first}{birth_day}
    <<[slot |-> "last"], [slot |-> "birth_month"]>>,  \* {last}{birth_month}
    <<[slot |-> "first_initial"], [slot |-> "last_initial"], [slot |-> "year"]>>,  \* {first_initial}{last_initial}{year}
    <<[slot |-> "first"], [slot |-> "year"], [slot |-> "last"]>>,  \* {first}{year}{last}
    <<[slot |-> "year"], [slot |-> "first"], [slot |-> "year_short"]>>  \* {year}{first}{year_short}
  >>

gui_human_patterns ==
  <<
    <<[slot |-> "first"], [slot |-> "last"]>>,  \* {first}{last}
    <<[slot |-> "last"], [slot |-> "first"]>>,  \* {last}{first}
    <<[slot |-> "first"], [slot |-> "year"]>>,  \* {first}{year}
    <<[slot |-> "last"], [slot |-> "year"]>>,  \* {last}{year}
    <<[slot |-> "first"], [slot |-> "year_short"]>>,  \* {first}{year_short}
    <<[slot |-> "last"], [slot |-> "year_short"]>>,  \* {last}{year_short}
    <<[slot |-> "first"], [slot |-> "day"], [slot |-> "month"]>>,  \* {first}{day}{month}
    <<[slot |-> "last"], [slot |-> "day"], [slot |-> "month"]>>,  \* {last}{day}{month}
    <<[slot |-> "first"], [slot |-> "month"], [slot |-> "year"]>>,  \* {first}{month}{year}
    <<[slot |-> "last"], [slot |-> "month"], [slot |-> "year"]>>,  \* {last}{month}{year}
    <<[slot |-> "first"], [slot |-> "day"], [slot |-> "month"], [slot |-> "year"]>>,  \* {first}{day}{month}{year}
    <<[slot |-> "last"], [slot |-> "day"], [slot |-> "month"], [slot |-> "year"]>>,  \* {last}{day}{month}{year}
    <<[slot |-> "first"], [slot |-> "month"], [slot |-> "day"], [slot |-> "year"]>>,  \* {first}{month}{day}{year}
    <<[slot |-> "last"], [slot |-> "month"], [slot |-> "day"], [slot |-> "year"]>>,  \* {last}{month}{day}{year}
    <<[slot |-> "first"], [slot |-> "year"], [slot |-> "month"], [slot |-> "day"]>>,  \* {first}{year}{month}{day}
    <<[slot |-> "last"], [slot |-> "year"], [slot |-> "month"], [slot |-> "day"]>>,  \* {last}{year}{month}{day}
    <<[slot |-> "first"], [slot |-> "last"], [slot |-> "year"]>>,  \* {first}{last}{year}
    <<[slot |-> "last"], [slot |-> "first"], [slot |-> "year"]>>,  \* {last}{first}{year}
    <<[slot |-> "first"], [slot |-> "last"], [slot |-> "year_short"]>>,  \* {first}{last}{year_short}
    <<[slot |-> "last"], [slot |-> "first"], [slot |-> "year_short"]>>,  \* {last}{first}{year_short}
    <<[slot |-> "first"], [slot |-> "last"], [slot |-> "day"], [slot |-> "month"]>>,  \* {first}{last}{day}{month}
    <<[slot |-> "last"], [slot |-> "first"], [slot |-> "day"], [slot |-> "month"]>>,  \* {last}{first}{day}{month}
    <<[slot |-> "first"], [slot |-> "last"], [slot |-> "month"], [slot |-> "year"]>>,  \* {first}{last}{month}{year}
    <<[slot |-> "last"], [slot |-> "first"], [slot |-> "month"], [slot |-> "year"]>>,  \* {last}{first}{month}{year}
    <<[slot |-> "first"], [slot |-> "last"], [slot |-> "day"], [slot |-> "month"], [slot |-> "year"]>>,  \* {first}{last}{day}{month}{year}
    <<[slot |-> "last"], [slot |-> "first"], [slot |-> "day"], [slot |-> "month"], [slot |-> "year"]>>,  \* {last}{first}{day}{month}{year}
    <<[slot |-> "first"], [slot |-> "last"], [slot |-> "month"], [slot |-> "day"], [slot |-> "year"]>>,  \* {first}{last}{month}{day}{year}
    <<[slot |-> "last"], [slot |-> "first"], [slot |-> "month"], [slot |-> "day"], [slot |-> "year"]>>,  \* {last}{first}{month}{day}{year}
    <<[slot |-> "first"], [slot |-> "last"], [slot |-> "year"], [slot |-> "month"], [slot |-> "day"]>>,  \* {first}{last}{year}{month}{day}
    <<[slot |-> "last"], [slot |-> "first"], [slot |-> "year"], [slot |-> "month"], [slot |-> "day"]>>,  \* {last}{first}{year}{month}{day}
    <<[slot |-> "first_initial"], [slot |-> "last"], [slot |-> "year"]>>,  \* {first_initial}{last}{year}
    <<[slot |-> "first"], [slot |-> "last_initial"], [slot |-> "year"]>>,  \* {first}{last_initial}{year}
    <<[slot |-> "first_initial"], [slot |-> "last_initial"], [slot |-> "year"]>>,  \* {first_initial}{last_initial}{year}
    <<[slot |-> "first_initial"], [slot |-> "last"], [slot |-> "year_short"]>>,  \* {first_initial}{last}{year_short}
    <<[slot |-> "first"], [slot |-> "last_initial"], [slot |-> "year_short"]>>,  \* {first}{last_initial}{year_short}
    <<[slot |-> "first_initial"], [slot |-> "last_initial"], [slot |-> "year_short"]>>,  \* {first_initial}{last_initial}{year_short}
    <<[slot |-> "first_initial"], [slot |-> "last"], [slot |-> "day"], [slot |-> "month"]>>,  \* {first_initial}{last}{day}{month}
    <<[slot |-> "first"], [slot |-> "last_initial"], [slot |-> "day"], [slot |-> "month"]>>,  \* {first}{last_initial}{day}{month}
    <<[slot |-> "first_initial"], [slot |-> "last_initial"], [slot |-> "day"], [slot |-> "month"]>>,  \* {first_initial}{last_initial}{day}{month}
    <<[slot |-> "first_initial"], [slot |-> "last"], [slot |-> "month"], [slot |-> "year"]>>,  \* {first_initial}{last}{month}{year}
    <<[slot |-> "first"], [slot |-> "last_initial"], [slot |-> "month"], [slot |-> "year"]>>,  \* {first}{last_initial}{month}{year}
    <<[slot |-> "first_initial"], [slot |-> "last_initial"], [slot |-> "month"], [slot |-> "year"]>>,  \* {first_initial}{last_initial}{month}{year}
    <<[slot |-> "first_initial"], [slot |-> "last"], [slot |-> "day"], [slot |-> "month"], [slot |-> "year"]>>,  \* {first_initial}{last}{day}{month}{year}
    <<[slot |-> "first"], [slot |-> "last_initial"], [slot |-> "day"], [slot |-> "month"], [slot |-> "year"]>>,  \* {first}{last_initial}{day}{month}{year}
    <<[slot |-> "first_initial"], [slot |-> "last_initial"], [slot |-> "day"], [slot |-> "month"], [slot |-> "year"]>>,  \* {first_initial}{last_initial}{day}{month}{year}
    <<[slot |-> "first"], [slot |-> "last"], [slot |-> "day"], [slot |-> "month"], [slot |-> "year_short"]>>,  \* {first}{last}{day}{month}{year_short}
    <<[slot |-> "last"], [slot |-> "first"], [slot |-> "day"], [slot |-> "month"], [slot |-> "year_short"]>>,  \* {last}{first}{day}{month}{year_short}
    <<[slot |-> "first"], [slot |-> "last"], [slot |-> "month"], [slot |-> "day"], [slot |-> "year_short"]>>,  \* {first}{last}{month}{day}{year_short}
    <<[slot |-> "last"], [slot |-> "first"], [slot |-> "month"], [slot |-> "day"], [slot |-> "year_short"]>>,  \* {last}{first}{month}{day}{year_short}
    <<[slot |-> "first"], [slot |-> "last"], [slot |-> "year_short"], [slot |-> "day"], [slot |-> "month"]>>,  \* {first}{last}{year_short}{day}{month}
    <<[slot |-> "last"], [slot |-> "first"], [slot |-> "year_short"], [slot |-> "day"], [slot |-> "month"]>>,  \* {last}{first}{year_short}{day}{month}
    <<[slot |-> "first"], [slot |-> "last"], [slot |-> "year_short"], [slot |-> "month"], [slot |-> "day"]>>,  \* {first}{last}{year_short}{month}{day}
    <<[slot |-> "last"], [slot |-> "first"], [slot |-> "year_short"], [slot |-> "month"], [slot |-> "day"]>>,  \* {last}{first}{year_short}{month}{day}
    <<[slot |-> "first"], [slot |-> "last"], [slot |-> "day"], [slot |-> "year_short"]>>,  \* {first}{last}{day}{year_short}
    <<[slot |-> "last"], [slot |-> "first"], [slot |-> "day"], [slot |-> "year_short"]>>,  \* {last}{first}{day}{year_short}
    <<[slot |-> "first"], [slot |-> "last"], [slot |-> "month"], [slot |-> "year_short"]>>,  \* {first}{last}{month}{year_short}
    <<[slot |-> "last"], [slot |-> "first"], [slot |-> "month"], [slot |-> "year_short"]>>,  \* {last}{first}{month}{year_short}
    <<[slot |-> "first"], [slot |-> "last"], [slot |-> "day"]>>,  \* {first}{last}{day}
    <<[slot |-> "last"], [slot |-> "first"], [slot |-> "day"]>>,  \* {last}{first}{day}
    <<[slot |-> "first"], [slot |-> "last"], [slot |-> "day"], [slot |-> "day"]>>,  \* {first}{last}{day}{day}
    <<[slot |-> "last"], [slot |-> "first"], [slot |-> "day"], [slot |-> "day"]>>,  \* {last}{first}{day}{day}
    <<[slot |-> "first"], [slot |-> "last"], [slot |-> "birth_day"]>>,  \* {first}{last}{birth_day}
    <<[slot |-> "last"], [slot |-> "first"], [slot |-> "birth_day"]>>,  \* {last}{first}{birth_day}
    <<[slot |-> "first"], [slot |-> "last"], [slot |-> "birth_day"], [slot |-> "birth_day"]>>,  \* {first}{last}{birth_day}{birth_day}
    <<[slot |-> "last"], [slot |-> "first"], [slot |-> "birth_day"], [slot |-> "birth_day"]>>,  \* {last}{first}{birth_day}{birth_day}
    <<[slot |-> "first"], [slot |-> "day"], [slot |-> "last"]>>,  \* {first}{day}{last}
    <<[slot |-> "last"], [slot |-> "day"], [slot |-> "first"]>>,  \* {last}{day}{first}
    <<[slot |-> "day"], [slot |-> "first"], [slot |-> "last"]>>,  \* {day}{first}{last}
    <<[slot |-> "day"], [slot |-> "last"], [slot |-> "first"]>>,  \* {day}{last}{first}
    <<[slot |-> "first"], [slot |-> "last"], [slot |-> "day"], [lit |-> <<"1", "2", "3">>]>>,  \* {first}{last}{day}123
    <<[slot |-> "last"], [slot |-> "first"], [slot |-> "day"], [lit |-> <<"1", "2", "3">>]>>,  \* {last}{first}{day}123
    <<[slot |-> "first"], [slot |-> "last"], [slot |-> "month"]>>,  \* {first}{last}{month}
    <<[slot |-> "last"], [slot |-> "first"], [slot |-> "month"]>>,  \* {last}{first}{month}
    <<[slot |-> "first"], [slot |-> "last"], [slot |-> "birth_month"]>>,  \* {first}{last}{birth_month}
    <<[slot |-> "last"], [slot |-> "first"], [slot |-> "birth_month"]>>,  \* {last}{first}{birth_month}
    <<[slot |-> "first"], [slot |-> "last"], [slot |-> "month"], [slot |-> "month"]>>,  \* {first}{last}{month}{month}
    <<[slot |-> "last"], [slot |-> "first"], [slot |-> "month"], [slot |-> "month"]>>,  \* {last}{first}{month}{month}
    <<[slot |-> "first"], [slot |-> "month"], [slot |-> "last"]>>,  \* {first}{month}{last}
    <<[slot |-> "last"], [slot |-> "month"], [slot |-> "first"]>>,  \* {last}{month}{first}
    <<[slot |-> "month"], [slot |-> "first"], [slot |-> "last"]>>,  \* {month}{first}{last}
    <<[slot |-> "month"], [slot |-> "last"], [slot |-> "first"]>>,  \* {month}{last}{first}
    <<[slot |-> "first"], [slot |-> "last"], [slot |-> "month_name"]>>,  \* {first}{last}{month_name}
    <<[slot |-> "last"], [slot |-> "first"], [slot |-> "month_name"]>>,  \* {last}{first}{month_name}
    <<[slot |-> "first"], [slot |-> "last"], [slot |-> "month_name_short"]>>,  \* {first}{last}{month_name_short}
    <<[slot |-> "last"], [slot |-> "first"], [slot |-> "month_name_short"]>>,  \* {last}{first}{month_name_short}
    <<[slot |-> "first"], [slot |-> "last"], [slot |-> "year"]>>,  \* {first}{last}{year}
    <<[slot |-> "last"], [slot |-> "first"], [slot |-> "year"]>>,  \* {last}{first}{year}
    <<[slot |-> "first"], [slot |-> "last"], [slot |-> "year_short"]>>,  \* {first}{last}{year_short}
    <<[slot |-> "last"], [slot |-> "first"], [slot |-> "year_short"]>>,  \* {last}{first}{year_short}
    <<[slot |-> "first"], [slot |-> "last"], [slot |-> "birth_year"]>>,  \* {first}{last}{birth_year}
    <<[slot |-> "last"], [slot |-> "first"], [slot |-> "birth_year"]>>,  \* {last}{first}{birth_year}
    <<[slot |-> "first"], [slot |-> "last"], [slot |-> "year"], [slot |-> "year"]>>,  \* {first}{last}{year}{year}
    <<[slot |-> "last"], [slot |-> "first"], [slot |-> "year"], [slot |-> "year"]>>,  \* {last}{first}{year}{year}
    <<[slot |-> "first"], [slot |-> "year"], [slot |-> "last"]>>,  \* {first}{year}{last}
    <<[slot |-> "last"], [slot |-> "year"], [slot |-> "first"]>>,  \* {last}{year}{first}
    <<[slot |-> "year"], [slot |-> "first"], [slot |-> "last"]>>,  \* {year}{first}{last}
    <<[slot |-> "year"], [slot |-> "last"], [slot |-> "first"]>>,  \* {year}{last}{first}
    <<[slot |-> "first"], [slot |-> "year_short"], [slot |-> "last"]>>,  \* {first}{year_short}{last}
    <<[slot |-> "last"], [slot |-> "year_short"], [slot |-> "first"]>>,  \* {last}{year_short}{first}
    <<[slot |-> "year_short"], [slot |-> "first"], [slot |-> "last"]>>,  \* {year_short}{first}{last}
    <<[slot |-> "year_short"], [slot |-> "last"], [slot |-> "first"]>>,  \* {year_short}{last}{first}
    <<[slot |-> "first"], [slot |-> "last"], [slot |-> "day"], [slot |-> "month"], [slot |-> "year_short"]>>,  \* {first}{last}{day}{month}{year_short}
    <<[slot |-> "last"], [slot |-> "first"], [slot |-> "day"], [slot |-> "month"], [slot |-> "year_short"]>>,  \* {last}{first}{day}{month}{year_short}
    <<[slot |-> "first"], [slot |-> "last"], [slot |-> "month"], [slot |-> "day"], [slot |-> "year_short"]>>,  \* {first}{last}{month}{day}{year_short}
    <<[slot |-> "last"], [slot |-> "first"], [slot |-> "month"], [slot |-> "day"], [slot |-> "year_short"]>>,  \* {last}{first}{month}{day}{year_short}
    <<[slot |-> "first"], [slot |-> "last"], [slot |-> "year_short"], [slot |-> "month"], [slot |-> "day"]>>,  \* {first}{last}{year_short}{month}{day}
    <<[slot |-> "last"], [slot |-> "first"], [slot |-> "year_short"], [slot |-> "month"], [slot |-> "day"]>>,  \* {last}{first}{year_short}{month}{day}
    <<[slot |-> "first"], [slot |-> "last"], [slot |-> "year_short"], [slot |-> "day"], [slot |-> "month"]>>,  \* {first}{last}{year_short}{day}{month}
    <<[slot |-> "last"], [slot |-> "first"], [slot |-> "year_short"], [slot |-> "day"], [slot |-> "month"]>>,  \* {last}{first}{year_short}{day}{month}
    <<[slot |-> "first"], [slot |-> "last"], [slot |-> "year"], [lit |-> <<"1", "2", "3">>]>>,  \* {first}{last}{year}123
    <<[slot |-> "last"], [slot |-> "first"], [slot |-> "year"], [lit |-> <<"1", "2", "3">>]>>,  \* {last}{first}{year}123
    <<[slot |-> "first"], [slot |-> "last"], [slot |-> "year_short"], [lit |-> <<"1", "2", "3">>]>>,  \* {first}{last}{year_short}123
    <<[slot |-> "last"], [slot |-> "first"], [slot |-> "year_short"], [lit |-> <<"1", "2", "3">>]>>,  \* {last}{first}{year_short}123
    <<[slot |-> "first"], [slot |-> "last"], [slot |-> "day"], [lit |-> <<"1", "2", "3">>]>>,  \* {first}{last}{day}123
    <<[slot |-> "last"], [slot |-> "first"], [slot |-> "day"], [lit |-> <<"1", "2", "3">>]>>,  \* {last}{first}{day}123
    <<[slot |-> "first"], [slot |-> "last"], [slot |-> "month"], [lit |-> <<"1", "2", "3">>]>>,  \* {first}{last}{month}123
    <<[slot |-> "last"], [slot |-> "first"], [slot |-> "month"], [lit |-> <<"1", "2", "3">>]>>,  \* {last}{first}{month}123
    <<[slot |-> "first"], [slot |-> "last"], [slot |-> "year"], [lit |-> <<"0", "0", "7">>]>>,  \* {first}{last}{year}007
    <<[slot |-> "last"], [slot |-> "first"], [slot |-> "year"], [lit |-> <<"0", "0", "7">>]>>,  \* {last}{first}{year}007
    <<[slot |-> "first"], [slot |-> "last"], [slot |-> "year"], [lit |-> <<"1", "1", "1">>]>>,  \* {first}{last}{year}111
    <<[slot |-> "last"], [slot |-> "first"], [slot |-> "year"], [lit |-> <<"1", "1", "1">>]>>,  \* {last}{first}{year}111
    <<[slot |-> "first"], [slot |-> "last"], [slot |-> "year"], [lit |-> <<"9", "9", "9">>]>>,  \* {first}{last}{year}999
    <<[slot |-> "last"], [slot |-> "first"], [slot |-> "year"], [lit |-> <<"9", "9", "9">>]>>,  \* {last}{first}{year}999
    <<[slot |-> "first"], [lit |-> <<".">>], [slot |-> "last"], [slot |-> "year"]>>,  \* {first}.{last}{year}
    <<[slot |-> "first"], [lit |-> <<"_">>], [slot |-> "last"], [slot |-> "year"]>>,  \* {first}_{last}{year}
    <<[slot |-> "first"], [lit |-> <<"-">>], [slot |-> "last"], [slot |-> "year"]>>,  \* {first}-{last}{year}
    <<[slot |-> "first"], [lit |-> <<"@">>], [slot |-> "last"], [slot |-> "year"]>>,  \* {first}@{last}{year}
    <<[slot |-> "first"], [lit |-> <<".">>], [slot |-> "last"], [slot |-> "year_short"]>>,  \* {first}.{last}{year_short}
    <<[slot |-> "first"], [lit |-> <<"_">>], [slot |-> "last"], [slot |-> "year_short"]>>,  \* {first}_{last}{year_short}
    <<[slot |-> "first"], [lit |-> <<"-">>], [slot |-> "last"], [slot |-> "year_short"]>>,  \* {first}-{last}{year_short}
    <<[slot |-> "first"], [lit |-> <<"@">>], [slot |-> "last"], [slot |-> "year_short"]>>,  \* {first}@{last}{year_short}
    <<[slot |-> "first"], [lit |-> <<".">>], [slot |-> "last"], [slot |-> "day"], [slot |-> "month"]>>,  \* {first}.{last}{day}{month}
    <<[slot |-> "first"], [lit |-> <<"_">>], [slot |-> "last"], [slot |-> "day"], [slot |-> "month"]>>,  \* {first}_{last}{day}{month}
    <<[slot |-> "first"], [lit |-> <<"-">>], [slot |-> "last"], [slot |-> "day"], [slot |-> "month"]>>,  \* {first}-{last}{day}{month}
    <<[slot |-> "first"], [lit |-> <<"@">>], [slot |-> "last"], [slot |-> "day"], [slot |-> "month"]>>,  \* {first}@{last}{day}{month}
    <<[slot |-> "first"], [lit |-> <<".">>], [slot |-> "last"], [slot |-> "month"], [slot |-> "year"]>>,  \* {first}.{last}{month}{year}
    <<[slot |-> "first"], [lit |-> <<"_">>], [slot |-> "last"], [slot |-> "month"], [slot |-> "year"]>>,  \* {first}_{last}{month}{year}
    <<[slot |-> "first"], [lit |-> <<"-">>], [slot |-> "last"], [slot |-> "month"], [slot |-> "year"]>>,  \* {first}-{last}{month}{year}
    <<[slot |-> "first"], [lit |-> <<"@">>], [slot |-> "last"], [slot |-> "month"], [slot |-> "year"]>>,  \* {first}@{last}{month}{year}
    <<[slot |-> "first"], [slot |-> "special"], [slot |-> "last"], [slot |-> "year"]>>,  \* {first}{special}{last}{year}
    <<[slot |-> "last"], [slot |-> "special"], [slot |-> "first"], [slot |-> "year"]>>,  \* {last}{special}{first}{year}
    <<[slot |-> "first"], [slot |-> "special"], [slot |-> "last"], [slot |-> "year_short"]>>,  \* {first}{special}{last}{year_short}
    <<[slot |-> "last"], [slot |-> "special"], [slot |-> "first"], [slot |-> "year_short"]>>,  \* {last}{special}{first}{year_short}
    <<[slot |-> "first"], [slot |-> "special"], [slot |-> "last"], [slot |-> "day"], [slot |-> "month"]>>,  \* {first}{special}{last}{day}{month}
    <<[slot |-> "last"], [slot |-> "special"], [slot |-> "first"], [slot |-> "day"], [slot |-> "month"]>>,  \* {last}{special}{first}{day}{month}
    <<[slot |-> "first"], [slot |-> "special"], [slot |-> "last"], [slot |-> "month"], [slot |-> "year"]>>,  \* {first}{special}{last}{month}{year}
    <<[slot |-> "last"], [slot |-> "special"], [slot |-> "first"], [slot |-> "month"], [slot |-> "year"]>>,  \* {last}{special}{first}{month}{year}
    <<[slot |-> "first"], [slot |-> "last"], [slot |-> "special"], [slot |-> "year"]>>,  \* {first}{last}{special}{year}
    <<[slot |-> "last"], [slot |-> "first"], [slot |-> "special"], [slot |-> "year"]>>,  \* {last}{first}{special}{year}
    <<[slot |-> "first"], [slot |-> "last"], [slot |-> "special"], [slot |-> "year_short"]>>,  \* {first}{last}{special}{year_short}
    <<[slot |-> "last"], [slot |-> "first"], [slot |-> "special"], [slot |-> "year_short"]>>,  \* {last}{first}{special}{year_short}
    <<[slot |-> "special"], [slot |-> "first"], [slot |-> "last"], [slot |-> "year"]>>,  \* {special}{first}{last}{year}
    <<[slot |-> "special"], [slot |-> "last"], [slot |-> "first"], [slot |-> "year"]>>,  \* {special}{last}{first}{year}
    <<[slot |-> "first"], [slot |-> "last"], [slot |-> "year"], [slot |-> "special"]>>,  \* {first}{last}{year}{special}
    <<[slot |-> "last"], [slot |-> "first"], [slot |-> "year"], [slot |-> "special"]>>,  \* {last}{first}{year}{special}
    <<[slot |-> "special"], [slot |-> "first"], [slot |-> "last"], [slot |-> "year_short"]>>,  \* {special}{first}{last}{year_short}
    <<[slot |-> "special"], [slot |-> "last"], [slot |-> "first"], [slot |-> "year_short"]>>,  \* {special}{last}{first}{year_short}
    <<[slot |-> "first"], [slot |-> "last"], [slot |-> "year_short"], [slot |-> "special"]>>,  \* {first}{last}{year_short}{special}
    <<[slot |-> "last"], [slot |-> "first"], [slot |-> "year_short"], [slot |-> "special"]>>,  \* {last}{first}{year_short}{special}
    <<[slot |-> "special"], [slot |-> "first"], [slot |-> "last"], [slot |-> "special"], [slot |-> "year"]>>,  \* {special}{first}{last}{special}{year}
    <<[slot |-> "special"], [slot |-> "last"], [slot |-> "first"], [slot |-> "special"], [slot |-> "year"]>>,  \* {special}{last}{first}{special}{year}
    <<[slot |-> "nick"], [slot |-> "year"]>>,  \* {nick}{year}
    <<[slot |-> "nick"], [slot |-> "year_short"]>>,  \* {nick}{year_short}
    <<[slot |-> "nick"], [slot |-> "day"]>>,  \* {nick}{day}
    <<[slot |-> "nick"], [slot |-> "month"]>>,  \* {nick}{month}
    <<[slot |-> "nick"], [slot |-> "day"], [slot |-> "month"]>>,  \* {nick}{day}{month}
    <<[slot |-> "nick"], [slot |-> "month"], [slot |-> "day"]>>,  \* {nick}{month}{day}
    <<[slot |-> "nick"], [slot |-> "day"], [slot |-> "month"], [slot |-> "year"]>>,  \* {nick}{day}{month}{year}
    <<[slot |-> "nick"], [slot |-> "month"], [slot |-> "day"], [slot |-> "year"]>>,  \* {nick}{month}{day}{year}
    <<[slot |-> "nick"], [slot |-> "year"], [slot |-> "day"], [slot |-> "month"]>>,  \* {nick}{year}{day}{month}
    <<[slot |-> "nick"], [slot |-> "year"], [slot |-> "month"], [slot |-> "day"]>>,  \* {nick}{year}{month}{day}
    <<[slot |-> "nick"], [slot |-> "birth_day"]>>,  \* {nick}{birth_day}
    <<[slot |-> "nick"], [slot |-> "birth_month"]>>,  \* {nick}{birth_month}
    <<[slot |-> "nick"], [slot |-> "birth_year"]>>,  \* {nick}{birth_year}
    <<[slot |-> "nick"], [slot |-> "birth_day"], [slot |-> "birth_month"]>>,  \* {nick}{birth_day}{birth_month}
    <<[slot |-> "nick"], [slot |-> "birth_month"], [slot |-> "birth_year"]>>,  \* {nick}{birth_month}{birth_year}
    <<[slot |-> "nick"], [slot |-> "birth_day"], [slot |-> "birth_year"]>>,  \* {nick}{birth_day}{birth_year}
    <<[slot |-> "first"], [slot |-> "year"]>>,  \* {first}{year}
    <<[slot |-> "first"], [slot |-> "year_short"]>>,  \* {first}{year_short}
    <<[slot |-> "first"], [slot |-> "day"]>>,  \* {first}{day}
    <<[slot |-> "first"], [slot |-> "month"]>>,  \* {first}{month}
    <<[slot |-> "first"], [slot |-> "day"], [slot |-> "month"]>>,  \* {first}{day}{month}
    <<[slot |-> "first"], [slot |-> "month"], [slot |-> "day"]>>,  \* {first}{month}{day}
    <<[slot |-> "first"], [slot |-> "day"], [slot |-> "month"], [slot |-> "year"]>>,  \* {first}{day}{month}{year}
    <<[slot |-> "first"], [slot |-> "month"], [slot |-> "day"], [slot |-> "year"]>>,  \* {first}{month}{day}{year}
    <<[slot |-> "first"], [slot |-> "year"], [slot |-> "day"], [slot |-> "month"]>>,  \* {first}{year}{day}{month}
    <<[slot |-> "first"], [slot |-> "year"], [slot |-> "month"], [slot |-> "day"]>>,  \* {first}{year}{month}{day}
    <<[slot |-> "first"], [slot |-> "birth_day"]>>,  \* {first}{birth_day}
    <<[slot |-> "first"], [slot |-> "birth_month"]>>,  \* {first}{birth_month}
    <<[slot |-> "first"], [slot |-> "birth_year"]>>,  \* {first}{birth_year}
    <<[slot |-> "first"], [slot |-> "birth_day"], [slot |-> "birth_month"]>>,  \* {first}{birth_day}{birth_month}
    <<[slot |-> "first"], [slot |-> "birth_month"], [slot |-> "birth_year"]>>,  \* {first}{birth_month}{birth_year}
    <<[slot |-> "first"], [slot |-> "birth_day"], [slot |-> "birth_year"]>>,  \* {first}{birth_day}{birth_year}
    <<[slot |-> "last"], [slot |-> "year"]>>,  \* {last}{year}
    <<[slot |-> "last"], [slot |-> "year_short"]>>,  \* {last}{year_short}
    <<[slot |-> "last"], [slot |-> "day"]>>,  \* {last}{day}
    <<[slot |-> "last"], [slot |-> "month"]>>,  \* {last}{month}
    <<[slot |-> "last"], [slot |-> "day"], [slot |-> "month"]>>,  \* {last}{day}{month}
    <<[slot |-> "last"], [slot |-> "month"], [slot |-> "day"]>>,  \* {last}{month}{day}
    <<[slot |-> "last"], [slot |-> "day"], [slot |-> "month"], [slot |-> "year"]>>,  \* {last}{day}{month}{year}
    <<[slot |-> "last"], [slot |-> "month"], [slot |-> "day"], [slot |-> "year"]>>,  \* {last}{month}{day}{year}
    <<[slot |-> "last"], [slot |-> "year"], [slot |-> "day"], [slot |-> "month"]>>,  \* {last}{year}{day}{month}
    <<[slot |-> "last"], [slot |-> "year"], [slot |-> "month"], [slot |-> "day"]>>,  \* {last}{year}{month}{day}
    <<[slot |-> "last"], [slot |-> "birth_day"]>>,  \* {last}{birth_day}
    <<[slot |-> "last"], [slot |-> "birth_month"]>>,  \* {last}{birth_month}
    <<[slot |-> "last"], [slot |-> "birth_year"]>>,  \* {last}{birth_year}
    <<[slot |-> "last"], [slot |-> "birth_day"], [slot |-> "birth_month"]>>,  \* {last}{birth_day}{birth_month}
    <<[slot |-> "last"], [slot |-> "birth_month"], [slot |-> "birth_year"]>>,  \* {last}{birth_month}{birth_year}
    <<[slot |-> "last"], [slot |-> "birth_day"], [slot |-> "birth_year"]>>,  \* {last}{birth_day}{birth_year}
    <<[slot |-> "first_initial"], [slot |-> "last"], [slot |-> "year"]>>,  \* {first_initial}{last}{year}
    <<[slot |-> "first"], [slot |-> "last_initial"], [slot |-> "year"]>>,  \* {first}{last_initial}{year}
    <<[slot |-> "first_initial"], [slot |-> "last_initial"], [slot |-> "year"]>>,  \* {first_initial}{last_initial}{year}
    <<[slot |-> "first_initial"], [slot |-> "last"], [slot |-> "year_short"]>>,  \* {first_initial}{last}{year_short}
    <<[slot |-> "first"], [slot |-> "last_initial"], [slot |-> "year_short"]>>,  \* {first}{last_initial}{year_short}
    <<[slot |-> "first_initial"], [slot |-> "last_initial"], [slot |-> "year_short"]>>,  \* {first_initial}{last_initial}{year_short}
    <<[slot |-> "first_initial"], [slot |-> "last"], [slot |-> "day"], [slot |-> "month"]>>,  \* {first_initial}{last}{day}{month}
    <<[slot |-> "first"], [slot |-> "last_initial"], [slot |-> "day"], [slot |-> "month"]>>,  \* {first}{last_initial}{day}{month}
    <<[slot |-> "first_initial"], [slot |-> "last_initial"], [slot |-> "day"], [slot |-> "month"]>>,  \* {first_initial}{last_initial}{day}{month}
    <<[slot |-> "first_initial"], [slot |-> "last"], [slot |-> "month"], [slot |-> "year"]>>,  \* {first_initial}{last}{month}{year}
    <<[slot |-> "first"], [slot |-> "last_initial"], [slot |-> "month"], [slot |-> "year"]>>,  \* {first}{last_initial}{month}{year}
    <<[slot |-> "first_initial"], [slot |-> "last_initial"], [slot |-> "month"], [slot |-> "year"]>>,  \* {first_initial}{last_initial}{month}{year}
    <<[slot |-> "year"], [slot |-> "first"], [slot |-> "last"]>>,  \* {year}{first}{last}
    <<[slot |-> "year"], [slot |-> "last"], [slot |-> "first"]>>,  \* {year}{last}{first}
    <<[slot |-> "year_short"], [slot |-> "first"], [slot |-> "last"]>>,  \* {year_short}{first}{last}
    <<[slot |-> "year_short"], [slot |-> "last"], [slot |-> "first"]>>,  \* {year_short}{last}{first}
    <<[slot |-> "day"], [slot |-> "month"], [slot |-> "first"], [slot |-> "last"]>>,  \* {day}{month}{first}{last}
    <<[slot |-> "day"], [slot |-> "month"], [slot |-> "last"], [slot |-> "first"]>>,  \* {day}{month}{last}{first}
    <<[slot |-> "month"], [slot |-> "day"], [slot |-> "first"], [slot |-> "last"]>>,  \* {month}{day}{first}{last}
    <<[slot |-> "month"], [slot |-> "day"], [slot |-> "last"], [slot |-> "first"]>>,  \* {month}{day}{last}{first}
    <<[slot |-> "year"], [slot |-> "month"], [slot |-> "first"], [slot |-> "last"]>>,  \* {year}{month}{first}{last}
    <<[slot |-> "year"], [slot |-> "month"], [slot |-> "last"], [slot |-> "first"]>>,  \* {year}{month}{last}{first}
    <<[slot |-> "month"], [slot |-> "year"], [slot |-> "first"], [slot |-> "last"]>>,  \* {month}{year}{first}{last}
    <<[slot |-> "month"], [slot |-> "year"], [slot |-> "last"], [slot |-> "first"]>>,  \* {month}{year}{last}{first}
    <<[slot |-> "day"], [slot |-> "year"], [slot |-> "first"], [slot |-> "last"]>>,  \* {day}{year}{first}{last}
    <<[slot |-> "day"], [slot |-> "year"], [slot |-> "last"], [slot |-> "first"]>>,  \* {day}{year}{last}{first}
    <<[slot |-> "first"], [slot |-> "year"], [slot |-> "last"]>>,  \* {first}{year}{last}
    <<[slot |-> "last"], [slot |-> "year"], [slot |-> "first"]>>,  \* {last}{year}{first}
    <<[slot |-> "first"], [slot |-> "year_short"], [slot |-> "last"]>>,  \* {first}{year_short}{last}
    <<[slot |-> "last"], [slot |-> "year_short"], [slot |-> "first"]>>,  \* {last}{year_short}{first}
    <<[slot |-> "first"], [slot |-> "day"], [slot |-> "last"], [slot |-> "month"]>>,  \* {first}{day}{last}{month}
    <<[slot |-> "last"], [slot |-> "month"], [slot |-> "first"], [slot |-> "day"]>>,  \* {last}{month}{first}{day}
    <<[slot |-> "first"], [slot |-> "month"], [slot |-> "last"], [slot |-> "day"]>>,  \* {first}{month}{last}{day}
    <<[slot |-> "last"], [slot |-> "day"], [slot |-> "first"], [slot |-> "month"]>>,  \* {last}{day}{first}{month}
    <<[slot |-> "first"], [slot |-> "year"], [slot |-> "last"], [slot |-> "day"]>>,  \* {first}{year}{last}{day}
    <<[slot |-> "last"], [slot |-> "year"], [slot |-> "first"], [slot |-> "month"]>>,  \* {last}{year}{first}{month}
    <<[slot |-> "first"], [slot |-> "last"], [slot |-> "day_padded"], [slot |-> "month_padded"]>>,  \* {first}{last}{day_padded}{month_padded}
    <<[slot |-> "last"], [slot |-> "first"], [slot |-> "day_padded"], [slot |-> "month_padded"]>>,  \* {last}{first}{day_padded}{month_padded}
    <<[slot |-> "first"], [slot |-> "last"], [slot |-> "month_padded"], [slot |-> "day_padded"]>>,  \* {first}{last}{month_padded}{day_padded}
    <<[slot |-> "last"], [slot |-> "first"], [slot |-> "month_padded"], [slot |-> "day_padded"]>>,  \* {last}{first}{month_padded}{day_padded}
    <<[slot |-> "first"], [slot |-> "last"], [slot |-> "day_padded"], [slot |-> "month_padded"], [slot |-> "year"]>>,  \* {first}{last}{day_padded}{month_padded}{year}
    <<[slot |-> "last"], [slot |-> "first"], [slot |-> "day_padded"], [slot |-> "month_padded"], [slot |-> "year"]>>,  \* {last}{first}{day_padded}{month_padded}{year}
    <<[slot |-> "first"], [slot |-> "last"], [slot |-> "month_padded"], [slot |-> "day_padded"], [slot |-> "year"]>>,  \* {first}{last}{month_padded}{day_padded}{year}
    <<[slot |-> "last"], [slot |-> "first"], [slot |-> "month_padded"], [slot |-> "day_padded"], [slot |-> "year"]>>,  \* {last}{first}{month_padded}{day_padded}{year}
    <<[slot |-> "first"], [slot |-> "last"], [slot |-> "month"], [lit |-> <<"/">>], [slot |-> "day"], [lit |-> <<"/">>], [slot |-> "year_short"]>>,  \* {first}{last}{month}/{day}/{year_short}
    <<[slot |-> "last"], [slot |-> "first"], [slot |-> "month"], [lit |-> <<"/">>], [slot |-> "day"], [lit |-> <<"/">>], [slot |-> "year_short"]>>,  \* {last}{first}{month}/{day}/{year_short}
    <<[slot |-> "first"], [slot |-> "last"], [slot |-> "day"], [lit |-> <<"-">>], [slot |-> "month"], [lit |-> <<"-">>], [slot |-> "year"]>>,  \* {first}{last}{day}-{month}-{year}
    <<[slot |-> "last"], [slot |-> "first"], [slot |-> "day"], [lit |-> <<"-">>], [slot |-> "month"], [lit |-> <<"-">>], [slot |-> "year"]>>,  \* {last}{first}{day}-{month}-{year}
    <<[slot |-> "first"], [slot |-> "last"], [slot |-> "year"], [lit |-> <<"-">>], [slot |-> "month"], [lit |-> <<"-">>], [slot |-> "day"]>>,  \* {first}{last}{year}-{month}-{day}
    <<[slot |-> "last"], [slot |-> "first"], [slot |-> "year"], [lit |-> <<"-">>], [slot |-> "month"], [lit |-> <<"-">>], [slot |-> "day"]>>,  \* {last}{first}{year}-{month}-{day}
    <<[slot |-> "first"], [slot |-> "last"], [slot |-> "month"], [lit |-> <<".">>], [slot |-> "day"], [lit |-> <<".">>], [slot |-> "year"]>>,  \* {first}{last}{month}.{day}.{year}
    <<[slot |-> "last"], [slot |-> "first"], [slot |-> "month"], [lit |-> <<".">>], [slot |-> "day"], [lit |-> <<".">>], [slot |-> "year"]>>,  \* {last}{first}{month}.{day}.{year}
    <<[slot |-> "first"], [slot |-> "last"], [slot |-> "day"], [slot |-> "day"]>>,  \* {first}{last}{day}{day}
    <<[slot |-> "last"], [slot |-> "first"], [slot |-> "day"], [slot |-> "day"]>>,  \* {last}{first}{day}{day}
    <<[slot |-> "first"], [slot |-> "last"], [slot |-> "month"], [slot |-> "month"]>>,  \* {first}{last}{month}{month}
    <<[slot |-> "last"], [slot |-> "first"], [slot |-> "month"], [slot |-> "month"]>>,  \* {last}{first}{month}{month}
    <<[slot |-> "first"], [slot |-> "last"], [slot |-> "year"], [slot |-> "year"]>>,  \* {first}{last}{year}{year}
    <<[slot |-> "last"], [slot |-> "first"], [slot |-> "year"], [slot |-> "year"]>>,  \* {last}{first}{year}{year}
    <<[slot |-> "first"], [slot |-> "last"], [slot |-> "day"], [slot |-> "day"], [slot |-> "month"]>>,  \* {first}{last}{day}{day}{month}
    <<[slot |-> "last"], [slot |-> "first"], [slot |-> "day"], [slot |-> "day"], [slot |-> "month"]>>,  \* {last}{first}{day}{day}{month}
    <<[slot |-> "first"], [slot |-> "last"], [slot |-> "month"], [slot |-> "month"], [slot |-> "year"]>>,  \* {first}{last}{month}{month}{year}
    <<[slot |-> "last"], [slot |-> "first"], [slot |-> "month"], [slot |-> "month"], [slot |-> "year"]>>,  \* {last}{first}{month}{month}{year}
    <<[slot |-> "first"], [slot |-> "last"], [slot |-> "year"], [slot |-> "year"], [slot |-> "day"]>>,  \* {first}{last}{year}{year}{day}
    <<[slot |-> "last"], [slot |-> "first"], [slot |-> "year"], [slot |-> "year"], [slot |-> "day"]>>,  \* {last}{first}{year}{year}{day}
    <<[slot |-> "first"], [slot |-> "last"], [slot |-> "month_name"], [slot |-> "year"]>>,  \* {first}{last}{month_name}{year}
    <<[slot |-> "last"], [slot |-> "first"], [slot |-> "month_name"], [slot |-> "year"]>>,  \* {last}{first}{month_name}{year}
    <<[slot |-> "first"], [slot |-> "last"], [slot |-> "month_name_short"], [slot |-> "year"]>>,  \* {first}{last}{month_name_short}{year}
    <<[slot |-> "last"], [slot |-> "first"], [slot |-> "month_name_short"], [slot |-> "year"]>>,  \* {last}{first}{month_name_short}{year}
    <<[slot |-> "first"], [slot |-> "last"], [slot |-> "month_name"], [slot |-> "year_short"]>>,  \* {first}{last}{month_name}{year_short}
    <<[slot |-> "last"], [slot |-> "first"], [slot |-> "month_name"], [slot |-> "year_short"]>>,  \* {last}{first}{month_name}{year_short}
    <<[slot |-> "first"], [slot |-> "last"], [slot |-> "month_name_short"], [slot |-> "year_short"]>>,  \* {first}{last}{month_name_short}{year_short}
    <<[slot |-> "last"], [slot |-> "first"], [slot |-> "month_name_short"], [slot |-> "year_short"]>>,  \* {last}{first}{month_name_short}{year_short}
    <<[slot |-> "first"], [slot |-> "last"], [slot |-> "day"], [slot |-> "month_name"]>>,  \* {first}{last}{day}{month_name}
    <<[slot |-> "last"], [slot |-> "first"], [slot |-> "day"], [slot |-> "month_name"]>>,  \* {last}{first}{day}{month_name}
    <<[slot |-> "first"], [slot |-> "last"], [slot |-> "day"], [slot |-> "month_name_short"]>>,  \* {first}{last}{day}{month_name_short}
    <<[slot |-> "last"], [slot |-> "first"], [slot |-> "day"], [slot |-> "month_name_short"]>>,  \* {last}{first}{day}{month_name_short}
    <<[slot |-> "first"], [slot |-> "last"], [lit |-> <<"(">>], [slot |-> "year"], [lit |-> <<")">>]>>,  \* {first}{last}({year})
    <<[slot |-> "last"], [slot |-> "first"], [lit |-> <<"(">>], [slot |-> "year"], [lit |-> <<")">>]>>,  \* {last}{first}({year})
    <<[slot |-> "first"], [slot |-> "last"], [lit |-> <<"[">>], [slot |-> "year"], [lit |-> <<"]">>]>>,  \* {first}{last}[{year}]
    <<[slot |-> "last"], [slot |-> "first"], [lit |-> <<"[">>], [slot |-> "year"], [lit |-> <<"]">>]>>,  \* {last}{first}[{year}]
    <<[slot |-> "first"], [slot |-> "last"], [lit |-> <<"{">>], [slot |-> "year"], [lit |-> <<"}">>]>>,  \* {first}{last}{{{year}}}
    <<[slot |-> "last"], [slot |-> "first"], [lit |-> <<"{">>], [slot |-> "year"], [lit |-> <<"}">>]>>,  \* {last}{first}{{{year}}}
    <<[slot |-> "first"], [slot |-> "last"], [lit |-> <<"(">>], [slot |-> "year_short"], [lit |-> <<")">>]>>,  \* {first}{last}({year_short})
    <<[slot |-> "last"], [slot |-> "first"], [lit |-> <<"(">>], [slot |-> "year_short"], [lit |-> <<")">>]>>,  \* {last}{first}({year_short})
    <<[slot |-> "first"], [slot |-> "last"], [lit |-> <<"[">>], [slot |-> "year_short"], [lit |-> <<"]">>]>>,  \* {first}{last}[{year_short}]
    <<[slot |-> "last"], [slot |-> "first"], [lit |-> <<"[">>], [slot |-> "year_short"], [lit |-> <<"]">>]>>,  \* {last}{first}[{year_short}]
    <<[slot |-> "first"], [slot |-> "last"], [slot |-> "year"], [lit |-> <<"1">>]>>,  \* {first}{last}{year}1
    <<[slot |-> "last"], [slot |-> "first"], [slot |-> "year"], [lit |-> <<"1">>]>>,  \* {last}{first}{year}1
    <<[slot |-> "first"], [slot |-> "last"], [slot |-> "year"], [lit |-> <<"0", "1">>]>>,  \* {first}{last}{year}01
    <<[slot |-> "last"], [slot |-> "first"], [slot |-> "year"], [lit |-> <<"0", "1">>]>>,  \* {last}{first}{year}01
    <<[slot |-> "first"], [slot |-> "last"], [slot |-> "year"], [lit |-> <<"0", "0", "1">>]>>,  \* {first}{last}{year}001
    <<[slot |-> "last"], [slot |-> "first"], [slot |-> "year"], [lit |-> <<"0", "0", "1">>]>>,  \* {last}{first}{year}001
    <<[slot |-> "first"], [slot |-> "last"], [slot |-> "year"], [lit |-> <<"!">>]>>,  \* {first}{last}{year}!
    <<[slot |-> "last"], [slot |-> "first"], [slot |-> "year"], [lit |-> <<"!">>]>>,  \* {last}{first}{year}!
    <<[slot |-> "first"], [slot |-> "last"], [slot |-> "year"], [lit |-> <<"@">>]>>,  \* {first}{last}{year}@
    <<[slot |-> "last"], [slot |-> "first"], [slot |-> "year"], [lit |-> <<"@">>]>>,  \* {last}{first}{year}@
    <<[slot |-> "first"], [slot |-> "last"], [slot |-> "year"], [lit |-> <<"#">>]>>,  \* {first}{last}{year}#
    <<[slot |-> "last"], [slot |-> "first"], [slot |-> "year"], [lit |-> <<"#">>]>>,  \* {last}{first}{year}#
    <<[slot |-> "first"], [slot |-> "last"]>>,  \* {first}{last}
    <<[slot |-> "last"], [slot |-> "first"]>>,  \* {last}{first}
    <<[slot |-> "first"], [slot |-> "year"], [slot |-> "last"]>>,  \* {first}{year}{last}
    <<[slot |-> "year"], [slot |-> "first"], [slot |-> "last"]>>,  \* {year}{first}{last}
    <<[slot |-> "first"], [slot |-> "last"], [slot |-> "first"], [slot |-> "year"]>>,  \* {first}{last}{first}{year}
    <<[slot |-> "last"], [slot |-> "first"], [slot |-> "last"], [slot |-> "year"]>>,  \* {last}{first}{last}{year}
    <<[slot |-> "first"], [slot |-> "first"], [slot |-> "last"], [slot |-> "year"]>>,  \* {first}{first}{last}{year}
    <<[slot |-> "last"], [slot |-> "last"], [slot |-> "first"], [slot |-> "year"]>>,  \* {last}{last}{first}{year}
    <<[slot |-> "first"], [slot |-> "spouse_initial"], [slot |-> "year"]>>,  \* {first}{spouse_initial}{year}
    <<[slot |-> "spouse_initial"], [slot |-> "first"], [slot |-> "year"]>>,  \* {spouse_initial}{first}{year}
    <<[slot |-> "first"], [slot |-> "child_initial"], [slot |-> "year"]>>,  \* {first}{child_initial}{year}
    <<[slot |-> "child_initial"], [slot |-> "first"], [slot |-> "year"]>>,  \* {child_initial}{first}{year}
    <<[slot |-> "first"], [slot |-> "pet_initial"], [slot |-> "year"]>>,  \* {first}{pet_initial}{year}
    <<[slot |-> "pet_initial"], [slot |-> "first"], [slot |-> "year"]>>,  \* {pet_initial}{first}{year}
    <<[slot |-> "first"], [slot |-> "last"], [slot |-> "first"], [slot |-> "year"]>>,  \* {first}{last}{first}{year}
    <<[slot |-> "last"], [slot |-> "first"], [slot |-> "last"], [slot |-> "year"]>>,  \* {last}{first}{last}{year}
    <<[slot |-> "first"], [slot |-> "first"], [slot |-> "last"], [slot |-> "year"]>>,  \* {first}{first}{last}{year}
    <<[slot |-> "last"], [slot |-> "last"], [slot |-> "first"], [slot |-> "year"]>>,  \* {last}{last}{first}{year}
    <<[slot |-> "first"], [slot |-> "last"], [slot |-> "last"], [slot |-> "year"]>>,  \* {first}{last}{last}{year}
    <<[slot |-> "last"], [slot |-> "first"], [slot |-> "first"], [slot |-> "year"]>>,  \* {last}{first}{first}{year}
    <<[slot |-> "first"], [slot |-> "last"], [slot |-> "first"], [slot |-> "year_short"]>>,  \* {first}{last}{first}{year_short}
    <<[slot |-> "last"], [slot |-> "first"], [slot |-> "last"], [slot |-> "year_short"]>>,  \* {last}{first}{last}{year_short}
    <<[slot |-> "first"], [slot |-> "first"], [slot |-> "last"], [slot |-> "year_short"]>>,  \* {first}{first}{last}{year_short}
    <<[slot |-> "last"], [slot |-> "last"], [slot |-> "first"], [slot |-> "year_short"]>>,  \* {last}{last}{first}{year_short}
    <<[slot |-> "first"], [slot |-> "spouse_initial"], [slot |-> "year"]>>,  \* {first}{spouse_initial}{year}
    <<[slot |-> "spouse_initial"], [slot |-> "first"], [slot |-> "year"]>>,  \* {spouse_initial}{first}{year}
    <<[slot |-> "first"], [slot |-> "child_initial"], [slot |-> "year"]>>,  \* {first}{child_initial}{year}
    <<[slot |-> "child_initial"], [slot |-> "first"], [slot |-> "year"]>>,  \* {child_initial}{first}{year}
    <<[slot |-> "first"], [slot |-> "pet_initial"], [slot |-> "year"]>>,  \* {first}{pet_initial}{year}
    <<[slot |-> "pet_initial"], [slot |-> "first"], [slot |-> "year"]>>,  \* {pet_initial}{first}{year}
    <<[slot |-> "first"], [slot |-> "father_initial"], [slot |-> "year"]>>,  \* {first}{father_initial}{year}
    <<[slot |-> "father_initial"], [slot |-> "first"], [slot |-> "year"]>>,  \* {father_initial}{first}{year}
    <<[slot |-> "first"], [slot |-> "mother_initial"], [slot |-> "year"]>>,  \* {first}{mother_initial}{year}
    <<[slot |-> "mother_initial"], [slot |-> "first"], [slot |-> "year"]>>,  \* {mother_initial}{first}{year}
    <<[slot |-> "nick"], [slot |-> "year"]>>,  \* {nick}{year}
    <<[slot |-> "nick"], [slot |-> "birth_day"]>>,  \* {nick}{birth_day}
    <<[slot |-> "nick"], [slot |-> "birth_month"]>>,  \* {nick}{birth_month}
    <<[slot |-> "nick"], [slot |-> "birth_day"], [slot |-> "birth_month"]>>,  \* {nick}{birth_day}{birth_month}
    <<[slot |-> "last"], [slot |-> "first"], [slot |-> "year_short"]>>,  \* {last}{first}{year_short}
    <<[slot |-> "year"], [slot |-> "first"], [slot |-> "last"]>>,  \* {year}{first}{last}
    <<[slot |-> "first"], [lit |-> <<".">>], [slot |-> "last"], [slot |-> "year_short"]>>,  \* {first}.{last}{year_short}
    <<[slot |-> "first"], [lit |-> <<"_">>], [slot |-> "last"], [slot |-> "year"]>>,  \* {first}_{last}{year}
    <<[slot |-> "first"], [slot |-> "special"], [slot |-> "last"], [slot |-> "year"]>>,  \* {first}{special}{last}{year}
    <<[slot |-> "first"], [slot |-> "last"], [slot |-> "special"], [slot |-> "year"]>>,  \* {first}{last}{special}{year}
    <<[slot |-> "first"], [slot |-> "last"], [lit |-> <<"1", "2", "3">>]>>,  \* {first}{last}123
    <<[slot |-> "first"], [slot |-> "last"], [lit |-> <<"1", "2", "3", "4">>]>>,  \* {first}{last}1234
    <<[slot |-> "first"], [slot |-> "last"], [lit |-> <<"1", "2", "3", "4", "5">>]>>,  \* {first}{last}12345
    <<[slot |-> "first"], [slot |-> "last"], [lit |-> <<"!">>]>>,  \* {first}{last}!
    <<[slot |-> "first"], [slot |-> "last"], [lit |-> <<"!", "!">>]>>,  \* {first}{last}!!
    <<[slot |-> "first"], [slot |-> "last"], [lit |-> <<"?">>]>>,  \* {first}{last}?
    <<[slot |-> "first"], [slot |-> "spouse_initial"], [slot |-> "year"]>>,  \* {first}{spouse_initial}{year}
    <<[slot |-> "child_name"], [slot |-> "year"]>>,  \* {child_name}{year}
    <<[slot |-> "pet_name"], [slot |-> "year"]>>,  \* {pet_name}{year}
    <<[slot |-> "first"], [slot |-> "birth_day"]>>,  \* {first}{birth_day}
    <<[slot |-> "last"], [slot |-> "birth_month"]>>,  \* {last}{birth_month}
    <<[slot |-> "first_initial"], [slot |-> "last_initial"], [slot |-> "year"]>>,  \* {first_initial}{last_initial}{year}
    <<[slot |-> "first"], [slot |-> "year"], [slot |-> "last"]>>,  \* {first}{year}{last}
    <<[slot |-> "year"], [slot |-> "first"], [slot |-> "year_short"]>>,  \* {year}{first}{year_short}
    <<[slot |-> "movie"]>>,  \* {movie}
    <<[slot |-> "movie"], [slot |-> "year"]>>,  \* {movie}{year}
    <<[slot |-> "movie"], [slot |-> "year_short"]>>,  \* {movie}{year_short}
    <<[slot |-> "first"], [slot |-> "movie"]>>,  \* {first}{movie}
    <<[slot |-> "movie"], [slot |-> "first"]>>,  \* {movie}{first}
    <<[slot |-> "first"], [slot |-> "movie"], [slot |-> "year"]>>,  \* {first}{movie}{year}
    <<[slot |-> "movie"], [slot |-> "first"], [slot |-> "year"]>>,  \* {movie}{first}{year}
    <<[slot |-> "music"]>>,  \* {music}
    <<[slot |-> "music"], [slot |-> "year"]>>,  \* {music}{year}
    <<[slot |-> "music"], [slot |-> "year_short"]>>,  \* {music}{year_short}
    <<[slot |-> "first"], [slot |-> "music"]>>,  \* {first}{music}
    <<[slot |-> "music"], [slot |-> "first"]>>,  \* {music}{first}
    <<[slot |-> "first"], [slot |-> "music"], [slot |-> "year"]>>,  \* {first}{music}{year}
    <<[slot |-> "music"], [slot |-> "first"], [slot |-> "year"]>>,  \* {music}{first}{year}
    <<[slot |-> "game"]>>,  \* {game}
    <<[slot |-> "game"], [slot |-> "year"]>>,  \* {game}{year}
    <<[slot |-> "game"], [slot |-> "year_short"]>>,  \* {game}{year_short}
    <<[slot |-> "first"], [slot |-> "game"]>>,  \* {first}{game}
    <<[slot |-> "game"], [slot |-> "first"]>>,  \* {game}{first}
    <<[slot |-> "first"], [slot |-> "game"], [slot |-> "year"]>>,  \* {first}{game}{year}
    <<[slot |-> "game"], [slot |-> "first"], [slot |-> "year"]>>,  \* {game}{first}{year}
    <<[slot |-> "book"]>>,  \* {book}
    <<[slot |-> "book"], [slot |-> "year"]>>,  \* {book}{year}
    <<[slot |-> "book"], [slot |-> "year_short"]>>,  \* {book}{year_short}
    <<[slot |-> "first"], [slot |-> "book"]>>,  \* {first}{book}
    <<[slot |-> "book"], [slot |-> "first"]>>,  \* {book}{first}
    <<[slot |-> "first"], [slot |-> "book"], [slot |-> "year"]>>,  \* {first}{book}{year}
    <<[slot |-> "book"], [slot |-> "first"], [slot |-> "year"]>>,  \* {book}{first}{year}
    <<[slot |-> "sport"]>>,  \* {sport}
    <<[slot |-> "sport"], [slot |-> "year"]>>,  \* {sport}{year}
    <<[slot |-> "team"]>>,  \* {team}
    <<[slot |-> "team"], [slot |-> "year"]>>,  \* {team}{year}
    <<[slot |-> "first"], [slot |-> "sport"]>>,  \* {first}{sport}
    <<[slot |-> "sport"], [slot |-> "first"]>>,  \* {sport}{first}
    <<[slot |-> "first"], [slot |-> "team"]>>,  \* {first}{team}
    <<[slot |-> "team"], [slot |-> "first"]>>,  \* {team}{first}
    <<[slot |-> "sport"], [slot |-> "year_short"]>>,  \* {sport}{year_short}
    <<[slot |-> "team"], [slot |-> "year_short"]>>,  \* {team}{year_short}
    <<[slot |-> "celebrity"]>>,  \* {celebrity}
    <<[slot |-> "celebrity"], [slot |-> "year"]>>,  \* {celebrity}{year}
    <<[slot |-> "first"], [slot |-> "celebrity"]>>,  \* {first}{celebrity}
    <<[slot |-> "celebrity"], [slot |-> "first"]>>,  \* {celebrity}{first}
    <<[slot |-> "place"]>>,  \* {place}
    <<[slot |-> "place"], [slot |-> "year"]>>,  \* {place}{year}
    <<[slot |-> "first"], [slot |-> "place"]>>,  \* {first}{place}
    <<[slot |-> "place"], [slot |-> "first"]>>,  \* {place}{first}
    <<[slot |-> "hobby"]>>,  \* {hobby}
    <<[slot |-> "hobby"], [slot |-> "year"]>>,  \* {hobby}{year}
    <<[slot |-> "first"], [slot |-> "hobby"]>>,  \* {first}{hobby}
    <<[slot |-> "hobby"], [slot |-> "first"]>>,  \* {hobby}{first}
    <<[slot |-> "first"], [slot |-> "movie"], [slot |-> "year_short"]>>,  \* {first}{movie}{year_short}
    <<[slot |-> "first"], [slot |-> "sport"], [slot |-> "year_short"]>>,  \* {first}{sport}{year_short}
    <<[slot |-> "first"], [slot |-> "game"], [slot |-> "year_short"]>>,  \* {first}{game}{year_short}
    <<[slot |-> "movie"], [slot |-> "year"], [slot |-> "first"]>>,  \* {movie}{year}{first}
    <<[slot |-> "sport"], [slot |-> "year"], [slot |-> "first"]>>,  \* {sport}{year}{first}
    <<[slot |-> "game"], [slot |-> "year"], [slot |-> "first"]>>,  \* {game}{year}{first}
    <<[slot |-> "first"], [slot |-> "music"], [slot |-> "day"], [slot |-> "month"]>>,  \* {first}{music}{day}{month}
    <<[slot |-> "first"], [slot |-> "game"], [slot |-> "day"], [slot |-> "month"]>>,  \* {first}{game}{day}{month}
    <<[slot |-> "music"], [slot |-> "day"], [slot |-> "month"], [slot |-> "year"]>>,  \* {music}{day}{month}{year}
    <<[slot |-> "game"], [slot |-> "day"], [slot |-> "month"], [slot |-> "year"]>>,  \* {game}{day}{month}{year}
    <<[slot |-> "first"], [slot |-> "special"], [slot |-> "movie"]>>,  \* {first}{special}{movie}
    <<[slot |-> "first"], [slot |-> "special"], [slot |-> "sport"]>>,  \* {first}{special}{sport}
    <<[slot |-> "movie"], [slot |-> "special"], [slot |-> "year"]>>,  \* {movie}{special}{year}
    <<[slot |-> "sport"], [slot |-> "special"], [slot |-> "year"]>>,  \* {sport}{special}{year}
    <<[slot |-> "movie"], [lit |-> <<"1", "2", "3">>]>>,  \* {movie}123
    <<[slot |-> "sport"], [lit |-> <<"1", "2", "3">>]>>,  \* {sport}123
    <<[slot |-> "game"], [lit |-> <<"1", "2", "3">>]>>,  \* {game}123
    <<[slot |-> "music"], [lit |-> <<"1", "2", "3">>]>>,  \* {music}123
    <<[slot |-> "book"], [lit |-> <<"1", "2", "3">>]>>,  \* {book}123
    <<[slot |-> "celebrity"], [lit |-> <<"1", "2", "3">>]>>,  \* {celebrity}123
    <<[slot |-> "place"], [lit |-> <<"1", "2", "3">>]>>,  \* {place}123
    <<[slot |-> "hobby"], [lit |-> <<"1", "2", "3">>]>>  \* {hobby}123
  >>

\* ------------------------------------------------------------------------
\* Sources of non-determinism
\* ------------------------------------------------------------------------

\* The module-level random generator: a stream of draws used cyclically.
\* A draw d in 0..9 stands for random.random() in [d/10, (d+1)/10).
Draw(rng, pos) == rng[(pos % Len(rng)) + 1]

\* random.choice(seq), consuming the draw at pos
Choice(seq, rng, pos) == seq[(Draw(rng, pos) % Len(seq)) + 1]

\* list(a_set): CPython iterates a set of str in hash-table order, and str
\* hashes are salted per process.  hash_order names the salt; two of the
\* orders a process can produce are modelled.
ListOf(S, hash_order) ==
  IF hash_order = "asc" THEN SortedByLenLex(S)
  ELSE TheOne({Reverse(sorted) : sorted \in {SortedByLenLex(S)}})

\* list(a_set)[:n]
Prefix(S, n, hash_order) ==
  IF Cardinality(S) <= n THEN ListOf(S, hash_order)
  ELSE SubSeq(ListOf(S, hash_order), 1, n)

\* list(a_set) taken whole, without the [:n]; C26 must tell it from the code
PrefixSet_uncut(S, n, hash_order) == S

\* the members of list(a_set)[:n]; all of the set when it has at most n
PrefixSet(S, n, hash_order) ==
  IF Cardinality(S) <= n THEN S
  ELSE TheOne({Range(pw_list) : pw_list \in {SubSeq(ListOf(S, hash_order), 1, n)}})

\* ------------------------------------------------------------------------
\* SmartHumanPasswordGenerator.parse_human_date
\* ------------------------------------------------------------------------

\* parse_human_date with the short year of an 8-digit date cut from the
\* wrong place (d[4:6], the century); C6 must tell it from the code
parse_human_date_century(date_str) ==
  IF date_str = <<>> THEN EmptyDict
  ELSE
    LET clean_date == SelectSeq(date_str, IsDigit)
        parts ==
          IF Len(clean_date) = 8 THEN
            [day |-> Slice(clean_date, 0, 2), month |-> Slice(clean_date, 2, 4),
             year |-> Slice(clean_date, 4, 8), year_short |-> Slice(clean_date, 4, 6)]
          ELSE IF Len(clean_date) = 6 THEN
            [day |-> Slice(clean_date, 0, 2), month |-> Slice(clean_date, 2, 4),
             year |-> <<"2", "0">> \o Slice(clean_date, 4, 6),
             year_short |-> Slice(clean_date, 4, 6)]
          ELSE IF Len(clean_date) = 4 THEN
            [day |-> Slice(clean_date, 0, 2), month |-> Slice(clean_date, 2, 4)]
          ELSE EmptyDict
    IN  parts @@ [full |-> clean_date]

\* parse_human_date with a default year for a date it cannot parse; C7 must
\* tell it from the code
parse_human_date_default_year(date_str) ==
  LET clean_date == SelectSeq(date_str, IsDigit)
      parts ==
        IF Len(clean_date) = 8 THEN
          [day |-> Slice(clean_date, 0, 2), month |-> Slice(clean_date, 2, 4),
           year |-> Slice(clean_date, 4, 8), year_short |-> Slice(clean_date, 6, 8)]
        ELSE IF Len(clean_date) = 6 THEN
          [day |-> Slice(clean_date, 0, 2), month |-> Slice(clean_date, 2, 4),
           year |-> <<"2", "0">> \o Slice(clean_date, 4, 6),
           year_short |-> Slice(clean_date, 4, 6)]
        ELSE IF Len(clean_date) = 4 THEN
          [day |-> Slice(clean_date, 0, 2), month |-> Slice(clean_date, 2, 4)]
        ELSE [year |-> <<"2", "0", "0", "0">>, year_short |-> <<"0", "0">>]
  IN  parts @@ [full |-> clean_date]

parse_human_date(date_str) ==
  IF date_str = <<>> THEN EmptyDict
  ELSE
    LET clean_date == SelectSeq(date_str, IsDigit)
        parts ==
          IF Len(clean_date) = 8 THEN
            [day |-> Slice(clean_date, 0, 2), month |-> Slice(clean_date, 2, 4),
             year |-> Slice(clean_date, 4, 8), year_short |-> Slice(clean_date, 6, 8)]
          ELSE IF Len(clean_date) = 6 THEN
            [day |-> Slice(clean_date, 0, 2), month |-> Slice(clean_date, 2, 4),
             year |-> <<"2", "0">> \o Slice(clean_date, 4, 6),
             year_short |-> Slice(clean_date, 4, 6)]
          ELSE IF Len(clean_date) = 4 THEN
            [day |-> Slice(clean_date, 0, 2), month |-> Slice(clean_date, 2, 4)]
          ELSE EmptyDict
    IN  parts @@ [full |-> clean_date]

\* ------------------------------------------------------------------------
\* generate_smart_combinations: the bindings and the template loop
\* ------------------------------------------------------------------------

\* the interest keys Gui/v2.py copies from data into vars_dict
InterestKeys ==
  {"sport", "team", "movie", "music", "book", "game", "celebrity", "place",
   "hobby", "lucky_num"}

\* vars_dict; special is the value drawn for the 'special' slot
MakeVarsDict(ui, data, date_info, special) ==
  LET first_name == Lower(Get(data, "first_name", <<>>))
      last_name  == Lower(Get(data, "last_name", <<>>))
      nickname   == Lower(Get(data, "nickname", <<>>))
      base ==
        [first |-> first_name, first_initial |-> Initial(first_name),
         last |-> last_name, last_initial |-> Initial(last_name),
         nick |-> nickname,
         year |-> Get(date_info, "year", <<>>),
         year_short |-> Get(date_info, "year_short", <<>>),
         birth_day |-> Get(date_info, "day", <<>>),
         birth_month |-> Get(date_info, "month", <<>>),
         day |-> Get(date_info, "day", <<>>),
         month |-> Get(date_info, "month", <<>>),
         special |-> special]
      spouse ==
        IF "spouse_name" \in DOMAIN data
        THEN [spouse_initial |-> Initial(Lower(data["spouse_name"]))] ELSE EmptyDict
      child ==
        IF "child_name" \in DOMAIN data
        THEN [child_name |-> Lower(data["child_name"])] ELSE EmptyDict
      pet ==
        IF "pet_name" \in DOMAIN data
        THEN [pet_name |-> Lower(data["pet_name"])] ELSE EmptyDict
      interests ==
        IF ui = "gui"
        THEN [k \in InterestKeys \cap DOMAIN data |-> Lower(data[k])]
        ELSE EmptyDict
  IN  base @@ spouse @@ child @@ pet @@ interests

\* the slots a template references
PatternSlots(pattern) ==
  {pattern[i].slot : i \in {j \in 1..Len(pattern) : "slot" \in DOMAIN pattern[j]}}

\* pattern.format(**vars_dict) raises KeyError: a referenced slot is no key
RaisesKeyError(pattern, vars_dict) == ~(PatternSlots(pattern) \subseteq DOMAIN vars_dict)

\* pattern.format(**vars_dict) when every referenced slot is a key
RECURSIVE Format(_, _)
Format(pattern, vars_dict) ==
  IF pattern = <<>> THEN <<>>
  ELSE (IF "slot" \in DOMAIN pattern[1]
        THEN vars_dict[pattern[1].slot] ELSE pattern[1].lit)
       \o Format(Tail(pattern), vars_dict)

\* the soft pre-filter band of the template loop
BandMin == 6

BandMax == 20

\* how many entries of common_numbers the template loop appends
TemplateNumbers == 10

\* what the body of the template loop adds for an accepted password
PatternAdds(password, add_numbers) ==
  LET with_numbers ==
        UNION {
          {password \o common_numbers[n]} \cup
          (IF HasChar(password, "_") \/ HasChar(password, ".")
           THEN LET parts == ReSplit(password, {".", "_"})
                IN  IF Len(parts) > 1
                    THEN {parts[1] \o common_numbers[n] \o parts[2]} ELSE {}
           ELSE {})
          : n \in 1..TemplateNumbers }
  IN  {password, Title(password), Capitalize(password)}
        \cup (IF add_numbers THEN with_numbers ELSE {})

\* the template loop's body with the band's lower end excluded (6 < len);
\* C9 must tell it from the code
ExpandPattern_strict_band(pattern, vars_dict, add_numbers) ==
  IF RaisesKeyError(pattern, vars_dict) THEN {}
  ELSE
    LET password == Format(pattern, vars_dict)
    IN  IF BandMin < Len(password) /\ Len(password) <= BandMax
        THEN PatternAdds(password, add_numbers)
        ELSE {}

\* what one iteration of the template loop adds to passwords
ExpandPattern(pattern, vars_dict, add_numbers) ==
  IF RaisesKeyError(pattern, vars_dict) THEN {}
  ELSE
    LET password == Format(pattern, vars_dict)
    IN  IF BandMin <= Len(password) /\ Len(password) <= BandMax
        THEN PatternAdds(password, add_numbers)
        ELSE {}

\* the template loop with 'special' chosen anew for every template; C10 must
\* tell it from the code
ExpandTemplates_reroll(patterns, vars_dict, add_numbers) ==
  UNION {ExpandPattern(patterns[i],
                       IF vars_dict["special"] = <<>> THEN vars_dict
                       ELSE [vars_dict EXCEPT
                               !["special"] = <<common_specials[(i % Len(common_specials)) + 1]>>],
                       add_numbers) : i \in 1..Len(patterns)}

\* the whole template loop: the first-generation candidate set
ExpandTemplates(patterns, vars_dict, add_numbers) ==
  UNION {ExpandPattern(patterns[i], vars_dict, add_numbers) : i \in 1..Len(patterns)}

\* ------------------------------------------------------------------------
\* generate_specific_examples (adds to passwords in place)
\* ------------------------------------------------------------------------

\* a version that builds its own set of examples and returns it in place of
\* the accumulated one; C14 must tell it from the code
generate_specific_examples_fresh(passwords, first_name, last_name, date_info) ==
  IF first_name = <<>> \/ last_name = <<>> THEN {}
  ELSE {first_name \o last_name, last_name \o first_name,
        first_name \o last_name \o <<"1", "2", "3">>}

generate_specific_examples(passwords, first_name, last_name, date_info) ==
  IF first_name = <<>> \/ last_name = <<>> THEN passwords
  ELSE
    LET day == Get(date_info, "day", <<>>)
        month == Get(date_info, "month", <<>>)
        year == Get(date_info, "year", <<>>)
        year_short == Get(date_info, "year_short", <<>>)
        f == first_name
        l == last_name
    IN passwords \cup
       { f \o l \o day \o month \o year_short,
         f \o l \o year,
         f \o l \o day,
         f \o l \o month,
         f \o l \o year_short,
         l \o f \o day \o month \o year,
         l \o f \o year,
         l \o f \o day \o month,
         f \o l \o l \o year,
         f \o f \o l \o year,
         f \o <<".">> \o l \o year_short,
         f \o <<"_">> \o l \o year,
         f \o l \o <<"@">> \o year_short,
         f \o year \o l,
         year_short \o f \o l,
         f \o <<l[1]>> \o year,
         f \o l,
         l \o f,
         <<f[1]>> \o l,
         f \o <<l[1]>>,
         f \o l \o <<"1", "2", "3">>,
         f \o l \o <<"!", "2", "3">>,
         f \o l \o <<"@", "1", "2", "3">> }

\* ------------------------------------------------------------------------
\* add_number_variations
\* ------------------------------------------------------------------------

\* list(passwords)[:100] of the date loop
NumberDatePrefix == 100

\* list(passwords)[:50] of the common-number loop
NumberCommonPrefix == 50

date_combinations(date_info) ==
  LET day == Get(date_info, "day", <<>>)
      month == Get(date_info, "month", <<>>)
      year == Get(date_info, "year", <<>>)
      year_short == Get(date_info, "year_short", <<>>)
  IN  (IF day # <<>> /\ month # <<>>
       THEN <<day \o month, month \o day>> ELSE <<>>)
      \o (IF day # <<>> /\ month # <<>> /\ year_short # <<>>
          THEN <<day \o month \o year_short, month \o day \o year_short>> ELSE <<>>)
      \o (IF year # <<>> THEN <<year>> ELSE <<>>)
      \o (IF year_short # <<>> THEN <<year_short>> ELSE <<>>)

add_number_variations(passwords, date_info, hash_order) ==
  LET combos == Slice(date_combinations(date_info), 0, 3)
      by_date ==
        UNION { UNION {
          {pwd \o combos[c], combos[c] \o pwd} \cup
          (IF HasAny(pwd, DigitChars) /\ TrailingDigitsStart(pwd) < Len(pwd)
           THEN {Slice(pwd, 0, TrailingDigitsStart(pwd)) \o combos[c]} ELSE {})
          : c \in 1..Len(combos) }
          : pwd \in PrefixSet(passwords, NumberDatePrefix, hash_order) }
      by_number ==
        UNION { UNION {
          {pwd \o common_numbers[n]} \cup
          (IF Len(pwd) > 5 /\ HasAny(pwd, {"_", ".", "-"})
           THEN LET parts == ReSplit(pwd, {".", "_", "-"})
                IN  IF Len(parts) = 2
                    THEN {parts[1] \o common_numbers[n] \o parts[2]} ELSE {}
           ELSE {})
          : n \in 1..5 }
          : pwd \in PrefixSet(passwords, NumberCommonPrefix, hash_order) }
  IN  by_date \cup by_number

\* ------------------------------------------------------------------------
\* add_special_variations
\* ------------------------------------------------------------------------

\* list(passwords)[:200]
SpecialPrefix == 200

add_special_variations(passwords, specials, hash_order) ==
  LET used == Slice(specials, 0, 3)
  IN  UNION {
        {pwd} \cup
        UNION {
          LET special == <<used[k]>>
          IN  {pwd \o special, special \o pwd, special \o pwd \o special}
              \cup (IF HasChar(pwd, " ") THEN {ReplaceChar(pwd, " ", used[k])} ELSE {})
              \cup (IF Len(pwd) > 8
                    THEN {Slice(pwd, 0, Len(pwd) \div 2) \o special
                          \o Slice(pwd, Len(pwd) \div 2, Len(pwd))}
                    ELSE {})
          : k \in 1..Len(used) }
        : pwd \in PrefixSet(passwords, SpecialPrefix, hash_order) }

\* ------------------------------------------------------------------------
\* add_leet_variations
\* ------------------------------------------------------------------------

\* list(passwords)[:100]
LeetPrefix == 100

\* the loop over leet_map for one password, from entry k on; pos is the
\* position in the random stream.  Gives the password and the new position.
RECURSIVE LeetSubstitute(_, _, _, _)
LeetSubstitute(leet_pwd, k, rng, pos) ==
  IF k > Len(leet_map) THEN [pwd |-> leet_pwd, pos |-> pos]
  ELSE
    LET char == leet_map[k].char
        subs == leet_map[k].subs
    IN  TheOne({
          IF TheOne({HasChar(lowered, char) : lowered \in {Lower(current)}})
          THEN IF Draw(rng, at) < 5
               THEN LeetSubstitute(
                      TheOne({ ReplaceChar(once, UpperChar(char), Choice(subs, rng, at + 2))
                               : once \in {ReplaceChar(current, char,
                                                       Choice(subs, rng, at + 1))} }),
                      k + 1, rng, at + 3)
               ELSE LeetSubstitute(current, k + 1, rng, at + 1)
          ELSE LeetSubstitute(current, k + 1, rng, at)
          : current \in {leet_pwd}, at \in {pos} })

\* one iteration of the loop over list(passwords)[:100]
LeetOne(pwd, rng, pos) ==
  IF Draw(rng, pos) < 3
  THEN TheOne({ [new |-> {pwd, r.pwd}, pos |-> r.pos]
                : r \in {LeetSubstitute(pwd, 1, rng, pos + 1)} })
  ELSE [new |-> {pwd}, pos |-> pos + 1]

\* the iterations lo..hi of that loop, in order, from stream position pos
RECURSIVE LeetLoop(_, _, _, _, _)
LeetLoop(pw_list, lo, hi, rng, pos) ==
  IF lo > hi THEN [new |-> {}, pos |-> pos]
  ELSE IF lo = hi THEN LeetOne(pw_list[lo], rng, pos)
  ELSE LET mid == (lo + hi) \div 2
       IN  TheOne({
             TheOne({ [new |-> left.new \cup right.new, pos |-> right.pos]
                      : right \in {LeetLoop(pw_list, mid + 1, hi, rng, left.pos)} })
             : left \in {LeetLoop(pw_list, lo, mid, rng, pos)} })

\* add_leet_variations; gives new_passwords and the stream position reached
add_leet_variations(passwords, hash_order, rng, pos) ==
  TheOne({ LeetLoop(pw_list, 1, Len(pw_list), rng, pos)
           : pw_list \in {Prefix(passwords, LeetPrefix, hash_order)} })

\* ------------------------------------------------------------------------
\* generate_common_passwords
\* ------------------------------------------------------------------------

\* the same patterns without the guard on empty names; C12 must tell it from
\* the code
generate_common_passwords_unguarded(first_name, last_name, date_info) ==
  LET year == Get(date_info, "year", <<>>)
      f == first_name
      l == last_name
  IN  { f \o <<"1", "2", "3">>,
        f \o <<"1", "2", "3", "4">>,
        l \o <<"1", "2", "3">>,
        f \o Slice(l, 0, 1) \o <<"1", "2", "3">>,
        f \o <<"!", "2", "3">>,
        f \o <<"@", "1", "2", "3">>,
        f \o <<"#", "1", "2", "3">>,
        Lower(f), Title(f), Lower(l), Title(l) }
      \cup (IF year # <<>>
            THEN {f \o year, l \o year,
                  f \o Slice(l, 0, 1) \o Get(date_info, "year_short", <<>>)}
            ELSE {})

generate_common_passwords(first_name, last_name, date_info) ==
  IF first_name = <<>> \/ last_name = <<>> THEN {}
  ELSE
    LET year == Get(date_info, "year", <<>>)
        year_short == Get(date_info, "year_short", <<>>)
        f == first_name
        l == last_name
    IN  { f \o <<"1", "2", "3">>,
          f \o <<"1", "2", "3", "4">>,
          l \o <<"1", "2", "3">>,
          f \o <<l[1]>> \o <<"1", "2", "3">>,
          f \o <<"!", "2", "3">>,
          f \o <<"@", "1", "2", "3">>,
          f \o <<"#", "1", "2", "3">>,
          Lower(f), Title(f), Lower(l), Title(l) }
        \cup (IF year # <<>>
              THEN {f \o year, l \o year, f \o <<l[1]>> \o year_short}
              ELSE {})

\* ------------------------------------------------------------------------
\* analyze_and_filter
\* ------------------------------------------------------------------------

\* the filter predicate without the upper length bound; C1 must tell it from
\* the code
PassesFilter_no_max(pwd, min_len, max_len) ==
  /\ min_len <= Len(pwd)
  /\ ~HasRun(pwd, FilterSpecials, 3)
  /\ ~HasRun(pwd, DigitChars, 6)
  /\ HasAny(pwd, AlphaChars)

\* the filter predicate with the digit rule at seven in a row (the rule of
\* Var7 and Var8); C21 must tell it from the code
PassesFilter_seven_digits(pwd, min_len, max_len) ==
  /\ min_len <= Len(pwd) /\ Len(pwd) <= max_len
  /\ ~HasRun(pwd, FilterSpecials, 3)
  /\ ~HasRun(pwd, DigitChars, 7)
  /\ HasAny(pwd, AlphaChars)

\* the predicate a password must pass to be added to filtered
PassesFilter(pwd, min_len, max_len) ==
  /\ min_len <= Len(pwd) /\ Len(pwd) <= max_len
  /\ ~HasRun(pwd, FilterSpecials, 3)
  /\ ~HasRun(pwd, DigitChars, 6)
  /\ HasAny(pwd, AlphaChars)

analyze_and_filter(passwords, min_len, max_len) ==
  {pwd \in passwords : PassesFilter(pwd, min_len, max_len)}

\* ------------------------------------------------------------------------
\* Gui/v2.py: apply_advanced_filters
\* ------------------------------------------------------------------------

\* needle in haystack
IsSubstring(needle, haystack) ==
  \E i \in 0..(Len(haystack) - Len(needle)) :
     SubSeq(haystack, i + 1, i + Len(needle)) = needle

Count(s, c) == Cardinality({i \in 1..Len(s) : s[i] = c})

CountIn(s, set) == Cardinality({i \in 1..Len(s) : s[i] \in set})

_contains_sequential(pwd) ==
  \E seq \in { <<"0","1","2">>, <<"1","2","3">>, <<"2","3","4">>, <<"3","4","5">>,
               <<"4","5","6">>, <<"5","6","7">>, <<"6","7","8">>, <<"7","8","9">>,
               <<"8","9","0">>, <<"3","2","1">>, <<"4","3","2">>, <<"5","4","3">>,
               <<"6","5","4">>, <<"7","6","5">>, <<"8","7","6">>, <<"9","8","7">> } :
     IsSubstring(seq, pwd)

_has_repeating_chars(pwd, max_allowed) ==
  \E c \in Range(pwd) : Count(pwd, c) > max_allowed

\* the checks of the loop body that come before the strength check
ReachesStrengthCheck(pwd, options) ==
  /\ ~(options.exclude_similar /\ HasAny(pwd, {"i", "l", "1", "L", "o", "0", "O"}))
  /\ ~(options.exclude_sequential /\ _contains_sequential(pwd))
  /\ ~(options.avoid_repeats /\ _has_repeating_chars(pwd, options.max_repeat))
  /\ (options.require_uppercase => HasAny(pwd, UpperChars))
  /\ (options.require_lowercase => HasAny(pwd, LowerChars))
  /\ (options.require_digits => HasAny(pwd, DigitChars))
  /\ (options.require_special => HasAny(pwd, FilterSpecials))
  /\ CountIn(pwd, UpperChars) >= options.min_uppercase
  /\ CountIn(pwd, DigitChars) >= options.min_digits
  /\ CountIn(pwd, FilterSpecials) >= options.min_special

\* self.calculate_complexity is no attribute of SmartHumanPasswordGenerator
\* (it is a method of PasswordGeneratorGUI): the call raises AttributeError
AdvancedFiltersRaise(passwords, options) ==
  /\ options.min_strength > 0
  /\ \E pwd \in passwords : ReachesStrengthCheck(pwd, options)

\* the set apply_advanced_filters returns when it does not raise
apply_advanced_filters(passwords, options) ==
  {pwd \in passwords : ReachesStrengthCheck(pwd, options)}

\* ------------------------------------------------------------------------
\* main / generate_passwords: the size limit and the ordering of the output
\* ------------------------------------------------------------------------

\* set(list(filtered)[:n]); a negative n drops the last -n members of the list
LimitTo(filtered, n, hash_order) ==
  IF n >= 0 THEN PrefixSet(filtered, n, hash_order)
  ELSE LET pw_list == ListOf(filtered, hash_order)
       IN  Range(SubSeq(pw_list, 1, Len(pw_list) + n))

\* main_Cli.main: if args.max > 0 and len(filtered) > args.max
cli_limit(filtered, max_out, hash_order) ==
  IF max_out > 0 /\ Cardinality(filtered) > max_out
  THEN LimitTo(filtered, max_out, hash_order) ELSE filtered

\* generate_passwords: if len(filtered) > max_pwds
gui_limit(filtered, max_out, hash_order) ==
  IF Cardinality(filtered) > max_out
  THEN LimitTo(filtered, max_out, hash_order) ELSE filtered

\* the write-out from a list that keeps each candidate and its capitalized
\* form side by side, not from the set; C5 must tell it from the code
sorted_passwords_from_list(filtered) ==
  SortedByLenLex(filtered) \o SortedByLenLex({Capitalize(pwd) : pwd \in filtered})

\* the write-out in plain str order, as list.sort() without a key gives it;
\* C18 must tell it from the code
sorted_passwords_no_key(filtered) ==
  SortedLex(filtered)

\* sorted(filtered, key=lambda x: (len(x), x))
sorted_passwords(filtered) ==
  SortedByLenLex(filtered)


\* ------------------------------------------------------------------------
\* Inputs: the profiles, flags and configurations the pipeline is run on
\* ------------------------------------------------------------------------

\* profiles handed to main_Cli's generate_smart_combinations: the ones main
\* builds (both names given, lower case), and two only a direct caller of the
\* class can pass (no field at all; empty names)
JohnDoe ==
  [first_name |-> <<"j", "o", "h", "n">>, last_name |-> <<"d", "o", "e">>,
   birth_date |-> <<"1", "5", "/", "0", "6", "/", "1", "9", "9", "0">>]

TessOats ==
  [first_name |-> <<"t", "e", "s", "s">>, last_name |-> <<"o", "a", "t", "s">>,
   birth_date |-> <<>>, nickname |-> <<>>, specials |-> <<"+", "!">>]

\* every text field the interactive prompts of main ask for, left empty
BlankFields ==
  [first_name |-> <<>>, last_name |-> <<>>, birth_date |-> <<>>, nickname |-> <<>>]

CliProfiles ==
  { EmptyDict,
    JohnDoe,
    TessOats,
    [first_name |-> <<"a", "l">>, last_name |-> <<"x", "u">>,
     birth_date |-> <<"1", "5", "0", "6", "9", "0">>,
     nickname |-> <<"j", "d">>, spouse_name |-> <<"s", "u", "e">>,
     child_name |-> <<"t", "i", "m", "m", "y">>, pet_name |-> <<"r", "e", "x">>],
    [first_name |-> <<>>, last_name |-> <<>>,
     birth_date |-> <<"1", "5", "0", "6", "1", "9", "9", "0">>,
     nickname |-> <<>>, child_name |-> <<"t", "i", "m">>,
     pet_name |-> <<"r", "e", "x", "i", "e">>],
    [first_name |-> <<"j", "o", " ", "a", "n">>, last_name |-> <<"l", "i">>,
     birth_date |-> <<"a", "b", "c", "d">>, nickname |-> <<"j", "o", "j", "o">>] }

\* profiles the GUI builds (first and last name are required there)
AlXu ==
  [first_name |-> <<"a", "l">>, last_name |-> <<"x", "u">>,
   birth_date |-> <<"1", "5", "0", "6", "1", "9", "9", "0">>]

JoLi ==
  [first_name |-> <<"j", "o">>, last_name |-> <<"l", "i">>,
   birth_date |-> <<"1", "/", "5", "/", "9">>,
   nickname |-> <<"j", "d">>, spouse_name |-> <<"s", "u", "e">>,
   movie |-> <<"m", "a", "t", "r", "i", "x">>, sport |-> <<"g", "o", "l", "f">>]

GuiProfiles == {AlXu, JoLi}

\* the three stage flags, every combination
FlagSets ==
  { [add_numbers |-> n, use_specials |-> s, use_leet |-> l] :
      n \in BOOLEAN, s \in BOOLEAN, l \in BOOLEAN }

AllOn == [add_numbers |-> TRUE, use_specials |-> TRUE, use_leet |-> TRUE]

\* main_Cli.main in command-line mode sets data['specials'] to common_specials;
\* a profile that brings its own 'specials' keeps it (interactive custom set)
WithSpecials(d) == IF "specials" \in DOMAIN d THEN d ELSE d @@ [specials |-> common_specials]

\* streams of the random generator
RngStreams == { <<1>>, <<8, 2, 4>>, <<2, 7, 1, 5>> }

HashOrders == {"asc", "desc"}

\* the default of --max and of the GUI's max_passwords field
DefaultMax == 5000

\* the largest small size limit tried
MaxOut == 2

\* the advanced options of the GUI form at their defaults
DefaultOptions ==
  [exclude_similar |-> FALSE, exclude_sequential |-> FALSE, avoid_repeats |-> FALSE,
   require_uppercase |-> FALSE, require_lowercase |-> TRUE, require_digits |-> FALSE,
   require_special |-> FALSE, min_strength |-> 0, max_repeat |-> 3,
   min_uppercase |-> 0, min_digits |-> 0, min_special |-> 0]

GuiOptions ==
  { DefaultOptions,
    [DefaultOptions EXCEPT !.min_strength = 5],
    [DefaultOptions EXCEPT !.exclude_sequential = TRUE, !.avoid_repeats = TRUE,
                           !.max_repeat = 2, !.require_digits = TRUE],
    [DefaultOptions EXCEPT !.exclude_similar = TRUE, !.min_uppercase = 1,
                           !.min_special = 1] }

\* (min_length, max_length) pairs of the GUI form
GuiLengths == { <<6, 20>>, <<8, 12>>, <<12, 8>> }

\* ------------------------------------------------------------------------
\* State
\* ------------------------------------------------------------------------

VARIABLES
  ui,           \* "cli" (main_Cli.py) or "gui" (Gui/v2.py)
  data,         \* the dict handed to generate_smart_combinations
  min_len,      \* analyze_and_filter's min_len
  max_len,      \* analyze_and_filter's max_len
  max_out,      \* args.max / max_passwords_var
  options,      \* advanced_options of the GUI
  rng,          \* the random stream
  hash_order,   \* the str hash salt of this process
  pc,           \* position in the pipeline
  date_info,    \* parse_human_date(birth_date)
  vars_dict,    \* the template bindings
  passwords,    \* the candidate set being built
  rng_pos,      \* draws taken from the random stream
  filtered,     \* the set after analyze_and_filter / the size limit
  output,       \* the sequence written out
  err,          \* the exception that ended the pipeline, or "none"
  run,          \* 1 for the first run of the process, 2 for the second; in
                \* the window of the GUI, the worker threads started so far
  first_output, \* the output of the first run
  self_passwords,          \* PasswordGeneratorGUI.passwords
  generation_in_progress,  \* PasswordGeneratorGUI.generation_in_progress
  workers,      \* the generation threads that are alive
  after_queue,  \* the callbacks handed to root.after and not yet run
  displayed,    \* the passwords shown in passwords_text
  status        \* status_var

\* the state of the GUI window
window ==
  <<self_passwords, generation_in_progress, workers, after_queue, displayed, status>>

vars ==
  <<ui, data, min_len, max_len, max_out, options, rng, hash_order, pc, date_info,
    vars_dict, passwords, rng_pos, filtered, output, err, run, first_output, window>>

inputs == <<ui, data, min_len, max_len, max_out, options, rng>>

\* the values every run starts from
Fresh ==
  /\ pc = "start"
  /\ date_info = EmptyDict
  /\ vars_dict = EmptyDict
  /\ passwords = {}
  /\ rng_pos = 0
  /\ filtered = {}
  /\ output = <<>>
  /\ err = "none"

\* the callbacks the GUI hands to root.after
Callbacks ==
  {"check_generation_complete", "update_output_display", "showerror", "status_error"}

\* the window after PasswordGeneratorGUI.__init__: no result, no thread, no
\* pending callback
WindowInit ==
  /\ self_passwords = {}
  /\ generation_in_progress = FALSE
  /\ workers = 0
  /\ after_queue = [c \in Callbacks |-> 0]
  /\ displayed = {}
  /\ status = "Ready"

\* the flag sets that leave the special-character stage off
PlainFlagSets == {f \in FlagSets : ~f.use_specials}

LeetOnly == [add_numbers |-> FALSE, use_specials |-> FALSE, use_leet |-> TRUE]

SpecialsAndLeet == [add_numbers |-> FALSE, use_specials |-> TRUE, use_leet |-> TRUE]

\* main_Cli.py at the default --max: every profile under every flag set without
\* specials, two profiles and the two empty ones under every flag set; and one
\* profile under every small --max and every random stream
InitCli ==
  /\ ui = "cli"
  /\ min_len = 6
  /\ max_len = 20
  /\ options = DefaultOptions
  /\ \/ /\ data \in {WithSpecials(p @@ f) : p \in CliProfiles, f \in PlainFlagSets}
                     \cup {WithSpecials(p @@ f) :
                             p \in {EmptyDict, BlankFields, JohnDoe, TessOats},
                             f \in FlagSets}
        /\ max_out = DefaultMax
        /\ rng = <<8, 2, 4>>
     \/ /\ data = WithSpecials(TessOats @@ SpecialsAndLeet)
        /\ max_out \in 0..MaxOut
        /\ rng \in RngStreams

\* Gui/v2.py with the form at its defaults: both profiles under every flag set
\* without specials, one under every flag set; and one profile under every
\* length pair, option set, small size limit and random stream
InitGui ==
  /\ ui = "gui"
  /\ \/ /\ data \in {WithSpecials(p @@ f) : p \in GuiProfiles, f \in PlainFlagSets}
                     \cup {WithSpecials(JoLi @@ f) : f \in FlagSets}
        /\ min_len = 6
        /\ max_len = 20
        /\ max_out = DefaultMax
        /\ options = DefaultOptions
        /\ rng = <<8, 2, 4>>
     \/ /\ data = WithSpecials(JoLi @@ LeetOnly)
        /\ \E lens \in GuiLengths : min_len = lens[1] /\ max_len = lens[2]
        /\ max_out \in 0..MaxOut
        /\ options \in GuiOptions
        /\ rng \in RngStreams

Init ==
  /\ (InitCli \/ InitGui)
  /\ hash_order \in HashOrders
  /\ Fresh
  /\ WindowInit
  /\ run = 1
  /\ first_output = <<>>

\* ------------------------------------------------------------------------
\* generate_smart_combinations, step by step
\* ------------------------------------------------------------------------

first_name == Lower(Get(data, "first_name", <<>>))

last_name == Lower(Get(data, "last_name", <<>>))

add_numbers == Get(data, "add_numbers", TRUE)

use_specials == Get(data, "use_specials", FALSE)

use_leet == Get(data, "use_leet", FALSE)

\* the template table of the running program
Patterns == IF ui = "gui" THEN gui_human_patterns ELSE human_patterns

\* parse the date and build vars_dict; 'special' is drawn once, here
Prepare ==
  /\ pc = "start"
  /\ ui \in {"cli", "gui"}
  /\ date_info' = parse_human_date(Get(data, "birth_date", <<>>))
  /\ vars_dict' =
       MakeVarsDict(ui, data, date_info',
                    IF use_specials THEN <<Choice(common_specials, rng, rng_pos)>>
                    ELSE <<>>)
  /\ rng_pos' = IF use_specials THEN rng_pos + 1 ELSE rng_pos
  /\ passwords' = {}
  /\ pc' = "prepared"
  /\ UNCHANGED <<inputs, window, hash_order, filtered, output, err, run, first_output>>

\* the template loop
Expand ==
  /\ pc = "prepared"
  /\ passwords' = passwords \cup ExpandTemplates(Patterns, vars_dict, add_numbers)
  /\ pc' = "expanded"
  /\ UNCHANGED <<inputs, window, hash_order, date_info, vars_dict, rng_pos, filtered, output,
                 err, run, first_output>>

SpecificExamples ==
  /\ pc = "expanded"
  /\ passwords' = generate_specific_examples(passwords, first_name, last_name, date_info)
  /\ pc' = "examples"
  /\ UNCHANGED <<inputs, window, hash_order, date_info, vars_dict, rng_pos, filtered, output,
                 err, run, first_output>>

\* the number stage without its test of the flag; C15 must tell it from the
\* code
NumberStage_ungated ==
  /\ pc = "examples"
  /\ passwords' = passwords \cup add_number_variations(passwords, date_info, hash_order)
  /\ pc' = "numbers"
  /\ UNCHANGED <<inputs, window, hash_order, date_info, vars_dict, rng_pos, filtered, output,
                 err, run, first_output>>

NumberStage ==
  /\ pc = "examples"
  /\ passwords' =
       IF add_numbers
       THEN passwords \cup add_number_variations(passwords, date_info, hash_order)
       ELSE passwords
  /\ pc' = "numbers"
  /\ UNCHANGED <<inputs, window, hash_order, date_info, vars_dict, rng_pos, filtered, output,
                 err, run, first_output>>

SpecialStage ==
  /\ pc = "numbers"
  /\ passwords' =
       IF use_specials
       THEN passwords \cup
            add_special_variations(passwords, Get(data, "specials", common_specials),
                                   hash_order)
       ELSE passwords
  /\ pc' = "specials"
  /\ UNCHANGED <<inputs, window, hash_order, date_info, vars_dict, rng_pos, filtered, output,
                 err, run, first_output>>

\* a leet stage whose loop never comes to an end; C20 must tell it from the
\* code
LeetStage_endless ==
  /\ pc = "specials"
  /\ UNCHANGED vars

LeetStage ==
  /\ pc = "specials"
  /\ IF use_leet
     THEN LET r == add_leet_variations(passwords, hash_order, rng, rng_pos)
          IN  /\ passwords' = passwords \cup r.new
              /\ rng_pos' = r.pos
     ELSE UNCHANGED <<passwords, rng_pos>>
  /\ pc' = "leet"
  /\ UNCHANGED <<inputs, window, hash_order, date_info, vars_dict, filtered, output, err, run,
                 first_output>>

\* the last statement of generate_smart_combinations and its return
CommonPasswords ==
  /\ pc = "leet"
  /\ passwords' = passwords \cup generate_common_passwords(first_name, last_name, date_info)
  /\ pc' = "generated"
  /\ UNCHANGED <<inputs, window, hash_order, date_info, vars_dict, rng_pos, filtered, output,
                 err, run, first_output>>

\* ------------------------------------------------------------------------
\* main (main_Cli.py) and generate_passwords (Gui/v2.py) after generation
\* ------------------------------------------------------------------------

\* analyze_and_filter, and in the GUI apply_advanced_filters on its result;
\* an exception there is caught by generate_passwords, which reports it
Filter ==
  /\ pc = "generated"
  /\ LET f == analyze_and_filter(passwords, min_len, max_len)
     IN  IF ui = "gui" /\ AdvancedFiltersRaise(f, options)
         THEN /\ err' = "AttributeError"
              /\ pc' = "error"
              /\ UNCHANGED filtered
         ELSE /\ filtered' = IF ui = "gui" THEN apply_advanced_filters(f, options) ELSE f
              /\ pc' = "filtered"
              /\ UNCHANGED err
  /\ UNCHANGED <<inputs, window, hash_order, date_info, vars_dict, passwords, rng_pos, output,
                 run, first_output>>

\* the size limit
Limit ==
  /\ pc = "filtered"
  /\ filtered' = IF ui = "gui" THEN gui_limit(filtered, max_out, hash_order)
                 ELSE cli_limit(filtered, max_out, hash_order)
  /\ pc' = "limited"
  /\ UNCHANGED <<inputs, window, hash_order, date_info, vars_dict, passwords, rng_pos, output,
                 err, run, first_output>>

\* the sorted write-out (main; save_to_file in the GUI); nothing is written
\* for an empty set
Emit ==
  /\ pc = "limited"
  /\ output' = IF filtered = {} THEN <<>> ELSE sorted_passwords(filtered)
  /\ pc' = "done"
  /\ UNCHANGED <<inputs, window, hash_order, date_info, vars_dict, passwords, rng_pos, filtered,
                 err, run, first_output>>

\* the program is started again on the same profile, configuration and random
\* stream; the new process has its own str hash salt
Rerun ==
  /\ pc = "done"
  /\ run = 1
  /\ run' = 2
  /\ first_output' = output
  /\ hash_order' \in HashOrders
  /\ pc' = "start"
  /\ date_info' = EmptyDict
  /\ vars_dict' = EmptyDict
  /\ passwords' = {}
  /\ rng_pos' = 0
  /\ filtered' = {}
  /\ output' = <<>>
  /\ err' = "none"
  /\ UNCHANGED <<inputs, window>>

Next ==
  \/ Prepare
  \/ Expand
  \/ SpecificExamples
  \/ NumberStage
  \/ SpecialStage
  \/ LeetStage
  \/ CommonPasswords
  \/ Filter
  \/ Limit
  \/ Emit
  \/ Rerun

Spec == Init /\ [][Next]_vars

\* ------------------------------------------------------------------------
\* parse_human_date and the bindings over a wide range of birth dates
\* ------------------------------------------------------------------------

\* the longest birth date tried
MaxDateLen == 8

\* two digits and a separator
DateChars == {"1", "9", "/"}

\* the dates the documentation uses as examples
NamedDates ==
  { <<"1", "5", "0", "6", "1", "9", "9", "0">>,
    <<"1", "5", "/", "0", "6", "/", "1", "9", "9", "0">>,
    <<"1", "5", "0", "6", "9", "0">>,
    <<"1", "5", "0", "6">>,
    <<"a", "b", "c", "d">> }

DateInputs == NamedDates \cup UNION {[1..n -> DateChars] : n \in 0..MaxDateLen}

InitDate ==
  /\ ui = "cli"
  /\ data \in {[first_name |-> <<"a", "l">>, birth_date |-> d] : d \in DateInputs}
  /\ min_len = 6
  /\ max_len = 20
  /\ max_out = DefaultMax
  /\ options = DefaultOptions
  /\ rng = <<1>>
  /\ hash_order = "asc"
  /\ Fresh
  /\ WindowInit
  /\ run = 1
  /\ first_output = <<>>

SpecDate == InitDate /\ [][Prepare]_vars

\* ------------------------------------------------------------------------
\* old_versions/Var4.py save_wordlist (Var3.py save_to_file is the same code
\* under other names): the stratified sampler
\* ------------------------------------------------------------------------

\* the prefix caps of the three strata
ShortCap == 100000

SpecialCap == 200000

LeetCap == 300000

\* a short word has at most this many characters
ShortLen == 8

\* the largest wordlist and the largest max_words tried
MaxWords == 4

\* words of every stratum, and of none
SamplerWords ==
  { <<"a", "b", "c">>,
    <<"q", "w", "e", "r", "t", "y">>,
    <<"l", "o", "n", "g", "p", "l", "a", "i", "n", "s">>,
    <<"l", "o", "n", "g", "e", "r", "p", "l", "a", "i", "n">>,
    <<"l", "o", "n", "g", "w", "o", "r", "d", "s", "!">>,
    <<"l", "o", "n", "g", "w", "o", "r", "d", "1", "2">> }

IsShort(w) == Len(w) <= ShortLen

IsSpecial(w) == HasAny(w, FilterSpecials)

IsLeet(w) == HasAny(w, DigitChars) /\ HasAny(w, AlphaChars)

\* the three strata, each cut to its cap, before the random sample
Strata(wordlist_list) ==
  Range(Slice(SelectSeq(wordlist_list, IsShort), 0, ShortCap))
    \cup Range(Slice(SelectSeq(wordlist_list, IsSpecial), 0, SpecialCap))
    \cup Range(Slice(SelectSeq(wordlist_list, IsLeet), 0, LeetCap))

\* random.sample(population, k) raises ValueError for a negative k (and for a
\* k above the population, which the guard before the call excludes)
SampleRaises(population, k) == k < 0 \/ k > Cardinality(population)

\* a draw that may return fewer than k words; C17 must tell it from the code
Samples_up_to(population, k) == {T \in SUBSET population : Cardinality(T) <= k}

\* the results random.sample(population, k) can give
Samples(population, k) == {T \in SUBSET population : Cardinality(T) = k}

\* save_wordlist with the sampling block entered whatever the size of the
\* wordlist; C16 must tell it from the code
SaveWordlist_always_samples ==
  /\ pc = "start"
  /\ ui = "sampler"
  /\ LET wordlist_list == ListOf(passwords, hash_order)
         sampled == Strata(wordlist_list)
         remaining == passwords \ sampled
         k == max_out - Cardinality(sampled)
     IN  IF Cardinality(remaining) > k
         THEN IF SampleRaises(remaining, k)
              THEN /\ err' = "ValueError"
                   /\ pc' = "error"
                   /\ UNCHANGED <<filtered, output>>
              ELSE \E picked \in Samples(remaining, k) :
                     /\ filtered' = sampled \cup picked
                     /\ output' = SortedLex(filtered')
                     /\ pc' = "written"
                     /\ UNCHANGED err
         ELSE /\ filtered' = sampled
              /\ output' = SortedLex(filtered')
              /\ pc' = "written"
              /\ UNCHANGED err
  /\ UNCHANGED <<inputs, window, hash_order, date_info, vars_dict, passwords, rng_pos, run,
                 first_output>>

\* save_wordlist up to the write: the sampling, then the sort
SaveWordlist ==
  /\ pc = "start"
  /\ ui = "sampler"
  /\ LET wordlist_list == ListOf(passwords, hash_order)
         sampled == Strata(wordlist_list)
         remaining == passwords \ sampled
         k == max_out - Cardinality(sampled)
     IN  IF Len(wordlist_list) > max_out
         THEN IF Cardinality(remaining) > k
              THEN IF SampleRaises(remaining, k)
                   THEN /\ err' = "ValueError"
                        /\ pc' = "error"
                        /\ UNCHANGED <<filtered, output>>
                   ELSE \E picked \in Samples(remaining, k) :
                          /\ filtered' = sampled \cup picked
                          /\ output' = SortedLex(filtered')
                          /\ pc' = "written"
                          /\ UNCHANGED err
              ELSE /\ filtered' = sampled
                   /\ output' = SortedLex(filtered')
                   /\ pc' = "written"
                   /\ UNCHANGED err
         ELSE /\ filtered' = passwords
              /\ output' = SortedLex(filtered')
              /\ pc' = "written"
              /\ UNCHANGED err
  /\ UNCHANGED <<inputs, window, hash_order, date_info, vars_dict, passwords, rng_pos, run,
                 first_output>>

InitSampler ==
  /\ ui = "sampler"
  /\ data = EmptyDict
  /\ min_len = 0
  /\ max_len = 0
  /\ max_out \in 1..MaxWords
  /\ options = DefaultOptions
  /\ rng = <<1>>
  /\ hash_order \in HashOrders
  /\ pc = "start"
  /\ date_info = EmptyDict
  /\ vars_dict = EmptyDict
  /\ passwords \in {W \in SUBSET SamplerWords : Cardinality(W) <= MaxWords}
  /\ rng_pos = 0
  /\ filtered = {}
  /\ output = <<>>
  /\ err = "none"
  /\ WindowInit
  /\ run = 1
  /\ first_output = <<>>

SpecSampler == InitSampler /\ [][SaveWordlist]_vars

\* the three programs side by side: main_Cli, the GUI and Var4's save_wordlist
NextAll ==
  \/ Next
  \/ SaveWordlist

SpecAll == (Init \/ InitSampler) /\ [][NextAll]_vars

\* ------------------------------------------------------------------------
\* Gui/v2.py PasswordGeneratorGUI: the interaction thread, the worker thread
\* that runs generate_passwords, and the callbacks handed to root.after
\* ------------------------------------------------------------------------

\* the generate requests accepted in one behaviour
MaxRuns == 2

\* root.after(delay, callback)
Schedule(queue, callback) == [queue EXCEPT ![callback] = @ + 1]

\* the event loop takes a callback to run it
Taken(queue, callback) == [queue EXCEPT ![callback] = @ - 1]

\* the local variables of generate_passwords
locals == <<date_info, vars_dict, passwords, filtered, err>>

\* a button that starts a worker whether or not one is running; C28 must
\* tell it from the code
generate_passwords_threaded_unguarded ==
  /\ ui = "gui"
  /\ run < MaxRuns
  /\ IF first_name = <<>> \/ last_name = <<>>
     THEN UNCHANGED vars
     ELSE /\ generation_in_progress' = TRUE
          /\ status' = "Generating passwords..."
          /\ workers' = workers + 1
          /\ pc' = "start"
          /\ date_info' = EmptyDict
          /\ vars_dict' = EmptyDict
          /\ passwords' = {}
          /\ filtered' = {}
          /\ err' = "none"
          /\ after_queue' = Schedule(after_queue, "check_generation_complete")
          /\ run' = run + 1
          /\ UNCHANGED <<inputs, hash_order, rng_pos, output, first_output,
                         self_passwords, displayed>>

\* the "Generate Passwords" button; the callbacks of root.after run in the
\* order of their due times, which the model leaves open
generate_passwords_threaded ==
  /\ ui = "gui"
  /\ run < MaxRuns
  /\ IF generation_in_progress \/ first_name = <<>> \/ last_name = <<>>
     THEN UNCHANGED vars
     ELSE /\ generation_in_progress' = TRUE
          /\ status' = "Generating passwords..."
          /\ workers' = workers + 1
          /\ pc' = "start"
          /\ date_info' = EmptyDict
          /\ vars_dict' = EmptyDict
          /\ passwords' = {}
          /\ filtered' = {}
          /\ err' = "none"
          /\ after_queue' = Schedule(after_queue, "check_generation_complete")
          /\ run' = run + 1
          /\ UNCHANGED <<inputs, hash_order, rng_pos, output, first_output,
                         self_passwords, displayed>>

\* a poller that looks once and is not re-armed while the thread is alive;
\* C29 must tell it from the code
check_generation_complete_once ==
  /\ after_queue["check_generation_complete"] > 0
  /\ after_queue' = Taken(after_queue, "check_generation_complete")
  /\ generation_in_progress' = IF workers > 0 THEN generation_in_progress ELSE FALSE
  /\ UNCHANGED <<inputs, hash_order, pc, locals, rng_pos, output, run,
                 first_output, self_passwords, workers, displayed, status>>

\* the poller: re-armed while the thread is alive
check_generation_complete ==
  /\ after_queue["check_generation_complete"] > 0
  /\ IF workers > 0
     THEN UNCHANGED vars
     ELSE /\ after_queue' = Taken(after_queue, "check_generation_complete")
          /\ generation_in_progress' = FALSE
          /\ UNCHANGED <<inputs, hash_order, pc, locals, rng_pos, output, run,
                         first_output, self_passwords, workers, displayed, status>>

\* a worker that publishes the generated set before it is filtered and
\* limited; C19 must tell it from the code
generate_passwords_assign_unfiltered ==
  /\ ui = "gui"
  /\ workers > 0
  /\ pc = "limited"
  /\ self_passwords' = passwords
  /\ pc' = "assigned"
  /\ UNCHANGED <<inputs, hash_order, locals, rng_pos, output, run, first_output,
                 generation_in_progress, workers, after_queue, displayed, status>>

\* the worker: self.passwords = filtered
generate_passwords_assign ==
  /\ ui = "gui"
  /\ workers > 0
  /\ pc = "limited"
  /\ self_passwords' = filtered
  /\ pc' = "assigned"
  /\ UNCHANGED <<inputs, hash_order, locals, rng_pos, output, run, first_output,
                 generation_in_progress, workers, after_queue, displayed, status>>

\* the worker: self.root.after(0, self.update_output_display), and its end
generate_passwords_schedule ==
  /\ pc = "assigned"
  /\ after_queue' = Schedule(after_queue, "update_output_display")
  /\ workers' = workers - 1
  /\ pc' = "idle"
  /\ UNCHANGED <<inputs, hash_order, locals, rng_pos, output, run, first_output,
                 self_passwords, generation_in_progress, displayed, status>>

\* an except branch that publishes what the run had generated so far and
\* schedules the success display next to the error report; C30 must tell it
\* from the code
generate_passwords_except_publishing ==
  /\ ui = "gui"
  /\ workers > 0
  /\ pc = "error"
  /\ self_passwords' = passwords
  /\ after_queue' = Schedule(Schedule(Schedule(after_queue, "showerror"), "status_error"),
                             "update_output_display")
  /\ workers' = workers - 1
  /\ pc' = "idle"
  /\ UNCHANGED <<inputs, hash_order, locals, rng_pos, output, run, first_output,
                 generation_in_progress, displayed, status>>

\* the worker: except Exception, and its end
generate_passwords_except ==
  /\ ui = "gui"
  /\ workers > 0
  /\ pc = "error"
  /\ after_queue' = Schedule(Schedule(after_queue, "showerror"), "status_error")
  /\ workers' = workers - 1
  /\ pc' = "idle"
  /\ UNCHANGED <<inputs, hash_order, locals, rng_pos, output, run, first_output,
                 self_passwords, generation_in_progress, displayed, status>>

\* display_passwords, update_statistics and the status line, on the
\* interaction thread
update_output_display ==
  /\ after_queue["update_output_display"] > 0
  /\ after_queue' = Taken(after_queue, "update_output_display")
  /\ displayed' = self_passwords
  /\ status' = "Generated"
  /\ UNCHANGED <<inputs, hash_order, pc, locals, rng_pos, output, run, first_output,
                 self_passwords, generation_in_progress, workers>>

\* the two callbacks of the except branch
showerror ==
  /\ after_queue["showerror"] > 0
  /\ after_queue' = Taken(after_queue, "showerror")
  /\ UNCHANGED <<inputs, hash_order, pc, locals, rng_pos, output, run, first_output,
                 self_passwords, generation_in_progress, workers, displayed, status>>

status_error ==
  /\ after_queue["status_error"] > 0
  /\ after_queue' = Taken(after_queue, "status_error")
  /\ status' = "Error occurred"
  /\ UNCHANGED <<inputs, hash_order, pc, locals, rng_pos, output, run, first_output,
                 self_passwords, generation_in_progress, workers, displayed>>

\* the "Save" button: the interaction thread reads self.passwords
save_to_file ==
  /\ ui = "gui"
  /\ pc \in {"idle", "start", "prepared", "expanded", "examples", "numbers", "specials",
             "leet", "generated", "filtered", "limited", "assigned", "error"}
  /\ IF self_passwords = {}
     THEN UNCHANGED vars
     ELSE /\ output' = sorted_passwords(self_passwords)
          /\ status' = "Saved"
          /\ UNCHANGED <<inputs, hash_order, pc, locals, rng_pos, run, first_output,
                         self_passwords, generation_in_progress, workers, after_queue,
                         displayed>>

\* the user moves the "minimum strength" scale of the form; the worker reads
\* it when it builds advanced_options, after analyze_and_filter
set_min_strength ==
  /\ ui = "gui"
  /\ \E strength \in {0, 5} :
       /\ strength # options.min_strength
       /\ options' = [options EXCEPT !.min_strength = strength]
  /\ UNCHANGED <<ui, data, min_len, max_len, max_out, rng, hash_order, pc, locals, rng_pos,
                 output, run, first_output, window>>

\* a form with the first name left empty
NoFirstName ==
  [first_name |-> <<>>, last_name |-> <<"l", "i">>, birth_date |-> <<>>]

\* the window after __init__, with the form filled in
InitWindow ==
  /\ ui = "gui"
  /\ data \in {WithSpecials(JoLi @@ LeetOnly), WithSpecials(NoFirstName @@ LeetOnly)}
  /\ min_len = 6
  /\ max_len = 20
  /\ max_out \in {MaxOut, DefaultMax}
  /\ options \in {DefaultOptions} \cup {o \in GuiOptions : o.min_strength > 0}
  /\ rng = <<8, 2, 4>>
  /\ hash_order \in HashOrders
  /\ pc = "idle"
  /\ date_info = EmptyDict
  /\ vars_dict = EmptyDict
  /\ passwords = {}
  /\ rng_pos = 0
  /\ filtered = {}
  /\ output = <<>>
  /\ err = "none"
  /\ WindowInit
  /\ run = 0
  /\ first_output = <<>>

NextWindow ==
  \/ generate_passwords_threaded
  \/ check_generation_complete
  \/ Prepare
  \/ Expand
  \/ SpecificExamples
  \/ NumberStage
  \/ SpecialStage
  \/ LeetStage
  \/ CommonPasswords
  \/ Filter
  \/ Limit
  \/ generate_passwords_assign
  \/ generate_passwords_schedule
  \/ generate_passwords_except
  \/ update_output_display
  \/ showerror
  \/ status_error
  \/ save_to_file
  \/ set_min_strength

SpecWindow == InitWindow /\ [][NextWindow]_vars

\* ------------------------------------------------------------------------
\* generate_smart_combinations and analyze_and_filter on a very long field
\* ------------------------------------------------------------------------

\* the length of the long field
StressLen == 100

\* a lower-case word of StressLen letters
LongField ==
  [i \in 1..StressLen |->
     <<"a", "b", "c", "d", "e", "f", "g", "h", "i", "j">>[((i - 1) % 10) + 1]]

\* the text fields main_Cli can set
StressFields ==
  {"first_name", "last_name", "nickname", "spouse_name", "child_name", "pet_name"}

\* a usual profile with one field replaced by the long word, and the profile
\* that has the long word as its only field
StressProfiles ==
  {[k \in DOMAIN AlXu \cup {f} |-> IF k = f THEN LongField ELSE AlXu[k]] :
     f \in StressFields}
    \cup {[first_name |-> LongField]}

InitStress ==
  /\ ui = "cli"
  /\ data \in {WithSpecials(p @@ AllOn) : p \in StressProfiles}
  /\ min_len = 6
  /\ max_len = 20
  /\ max_out = DefaultMax
  /\ options = DefaultOptions
  /\ rng \in RngStreams
  /\ hash_order \in HashOrders
  /\ Fresh
  /\ WindowInit
  /\ run = 1
  /\ first_output = <<>>

\* generate_smart_combinations, then analyze_and_filter
NextStress ==
  \/ Prepare
  \/ Expand
  \/ SpecificExamples
  \/ NumberStage
  \/ SpecialStage
  \/ LeetStage
  \/ CommonPasswords
  \/ Filter

\* the interpreter runs the next statement of a single-threaded program as
\* long as there is one
SpecStress == InitStress /\ [][NextStress]_vars /\ WF_vars(NextStress)

\* The Tk event loop runs every callback that is due: the poller, armed by
\* root.after(100, ...), is run again and again until it finds the thread
\* ended.  The worker thread is scheduled by the operating system and runs
\* its statements to the end.
SpecWindowFair ==
  /\ SpecWindow
  /\ WF_vars(check_generation_complete)


\* ------------------------------------------------------------------------
\* old_versions/Var6.py EnhancedWordlistGenerator.apply_leet_level
\* ------------------------------------------------------------------------

\* self.leet_maps in the dict's insertion order; a substitute is a str of one
\* or more characters.  A character outside ASCII is written as a named
\* placeholder of its code point.
leet_maps ==
  <<
     [char |-> "a", subs |-> << <<"4">>, <<"@">>, <<"/", "<bslash>">>, <<"^">>, <<"<u03bb>">> >>],
     [char |-> "b", subs |-> << <<"8">>, <<"|", "3">>, <<"<u00df>">>, <<"1", "3">>, <<"|", "o">> >>],
     [char |-> "c", subs |-> << <<"[">>, <<"<">>, <<"(">>, <<"{">> >>],
     [char |-> "d", subs |-> << <<"|", ")">>, <<"|", "]">>, <<"|", ">">> >>],
     [char |-> "e", subs |-> << <<"3">>, <<"<u20ac>">>, <<"<u0454>">>, <<"<u00a3>">> >>],
     [char |-> "f", subs |-> << <<"|", "=">>, <<"p", "h">>, <<"<u0192>">> >>],
     [char |-> "g", subs |-> << <<"6">>, <<"9">>, <<"&">>, <<"(", "_", "+">> >>],
     [char |-> "h", subs |-> << <<"#">>, <<"|", "-", "|">>, <<"]", "-", "[">>, <<"}", "{">> >>],
     [char |-> "i", subs |-> << <<"1">>, <<"!">>, <<"|">>, <<"<u03b9>">> >>],
     [char |-> "j", subs |-> << <<"]">>, <<"_", "|">>, <<"_", "/">> >>],
     [char |-> "k", subs |-> << <<"|", "<">>, <<"|", "{">>, <<"<u026e>">> >>],
     [char |-> "l", subs |-> << <<"|", "_">>, <<"<u00a3>">>, <<"1">>, <<"<u2113>">> >>],
     [char |-> "m", subs |-> << <<"|", "v", "|">>, <<"/", "<bslash>", "/", "<bslash>">>, <<"^", "^">>, <<"[", "V", "]">> >>],
     [char |-> "n", subs |-> << <<"|", "<bslash>", "|">>, <<"/", "<bslash>", "/">>, <<"<u0418>">>, <<"<u0e17>">> >>],
     [char |-> "o", subs |-> << <<"0">>, <<"(", ")">>, <<"[", "]">>, <<"<u00b0>">> >>],
     [char |-> "p", subs |-> << <<"|", "*">>, <<"|", ">">>, <<"9">>, <<"|", "7">> >>],
     [char |-> "q", subs |-> << <<"0", "_">>, <<"9">>, <<"(", ",", ")">> >>],
     [char |-> "r", subs |-> << <<"|", "2">>, <<"|", "?">>, <<"/", "2">>, <<"<u042f>">> >>],
     [char |-> "s", subs |-> << <<"5">>, <<"$">>, <<"z">>, <<"<u00a7>">> >>],
     [char |-> "t", subs |-> << <<"7">>, <<"+">>, <<"<u2020>">>, <<"<u2021>">> >>],
     [char |-> "u", subs |-> << <<"|", "_", "|">>, <<"<u00b5>">>, <<"<u0e1a>">> >>],
     [char |-> "v", subs |-> << <<"<bslash>", "/">>, <<"|", "/">>, <<"<u06a4>">> >>],
     [char |-> "w", subs |-> << <<"<bslash>", "/", "<bslash>", "/">>, <<"v", "v">>, <<"<bslash>", "X", "/">>, <<"<u0e1e>">> >>],
     [char |-> "x", subs |-> << <<">", "<">>, <<"}", "{">>, <<"<u00d7>">>, <<"<u0416>">> >>],
     [char |-> "y", subs |-> << <<"<grave>", "/">>, <<"<u00a5>">>, <<"<u03c6>">> >>],
     [char |-> "z", subs |-> << <<"2">>, <<"~", "/", "_">>, <<"%">> >>]
  >>

\* basic_leet of level 1
basic_leet ==
  << [char |-> "a", sub |-> <<"4">>], [char |-> "e", sub |-> <<"3">>],
     [char |-> "i", sub |-> <<"1">>], [char |-> "o", sub |-> <<"0">>],
     [char |-> "s", sub |-> <<"5">>] >>

\* char in leet_map
InLeetMaps(c) == \E k \in 1..Len(leet_maps) : leet_maps[k].char = c

\* leet_map[char]
LeetSubs(c) == leet_maps[CHOOSE k \in 1..Len(leet_maps) : leet_maps[k].char = c].subs

\* word.replace(char, sub) for a char of one character
ReplaceStr(word, char, sub) ==
  Concat([i \in 1..Len(word) |-> IF word[i] = char THEN sub ELSE <<word[i]>>],
         1, Len(word))

\* {''.join(combo) for combo in itertools.product(*opts[k:])}
RECURSIVE Joined(_, _)
Joined(opts, k) ==
  IF k > Len(opts) THEN {<<>>}
  ELSE {o \o rest : o \in Range(opts[k]), rest \in Joined(opts, k + 1)}

\* math.prod(len(opts) for opts in char_options[k:])
RECURSIVE OptionProduct(_, _)
OptionProduct(opts, k) ==
  IF k > Len(opts) THEN 1 ELSE Len(opts[k]) * OptionProduct(opts, k + 1)

\* the test of level 3: len(chars_to_replace) <= 3
LeetCeiling == 3

\* max_combinations of level 4
max_combinations == 1000

\* len(chars_to_replace): the characters of word that are keys of leet_map
chars_to_replace(word) == Cardinality({i \in 1..Len(word) : InLeetMaps(word[i])})

\* char_options of level 4
char_options(word) ==
  [i \in 1..Len(word) |->
     IF InLeetMaps(word[i]) THEN << <<word[i]>> >> \o LeetSubs(word[i])
     ELSE << <<word[i]>> >>]

\* apply_leet_level(word, level) with custom_map None, as the set its
\* list(set(variations)) holds
apply_leet_level(word, level, stream, at) ==
  {word} \cup
  CASE level = 1 ->
         {ReplaceStr(word, basic_leet[k].char, basic_leet[k].sub) :
            k \in {k \in 1..Len(basic_leet) : HasChar(word, basic_leet[k].char)}}
    [] level = 2 ->
         UNION {{ReplaceStr(word, leet_maps[k].char, Slice(leet_maps[k].subs, 0, 2)[n]) :
                   n \in 1..Len(Slice(leet_maps[k].subs, 0, 2))} :
                k \in {k \in 1..Len(leet_maps) : HasChar(word, leet_maps[k].char)}}
    [] level = 3 ->
         IF chars_to_replace(word) <= LeetCeiling
         THEN Joined([i \in 1..Len(word) |->
                        IF InLeetMaps(word[i]) THEN LeetSubs(word[i])
                        ELSE << <<word[i]>> >>], 1)
         ELSE {}
    [] level = 4 ->
         IF OptionProduct(char_options(word), 1) <= max_combinations
         THEN Joined(char_options(word), 1)
         ELSE \* pass n of the sampling loop: one random.choice per character
              {Concat([i \in 1..Len(word) |->
                         Choice(char_options(word)[i], stream, at + n * Len(word) + (i - 1))],
                      1, Len(word)) : n \in 0..(max_combinations - 1)}
    [] OTHER -> {}

\* the words handed to apply_leet_level: none, one without a key of
\* leet_map, and words with 2, 3, 4 and 5 such characters
LeetWords ==
  { <<>>, <<"A", "1">>, <<"g", "o">>, <<"c", "a", "t">>, <<"C", "a", "t", "1">>,
    <<"c", "o", "d", "e">>, <<"p", "a", "s", "s">>, <<"a", "b", "b", "a">>,
    <<"h", "e", "l", "l", "o">> }

\* a call of a function of the old versions on its own: no pipeline, no window
Standalone ==
  /\ min_len = 0
  /\ max_len = 0
  /\ max_out = 0
  /\ options = DefaultOptions
  /\ hash_order = "asc"
  /\ Fresh
  /\ WindowInit
  /\ run = 1
  /\ first_output = <<>>

\* one call apply_leet_level(word, level)
ApplyLeetLevel ==
  /\ ui = "apply_leet_level"
  /\ pc = "start"
  /\ passwords' = apply_leet_level(data.word, data.level, rng, rng_pos)
  /\ rng_pos' = IF data.level = 4
                   /\ OptionProduct(char_options(data.word), 1) > max_combinations
                THEN rng_pos + max_combinations * Len(data.word) ELSE rng_pos
  /\ pc' = "returned"
  /\ UNCHANGED <<inputs, window, hash_order, date_info, vars_dict, filtered, output, err,
                 run, first_output>>

InitLeet ==
  /\ ui = "apply_leet_level"
  /\ data \in {[word |-> w, level |-> l] : w \in LeetWords, l \in 1..4}
  /\ rng \in RngStreams
  /\ Standalone

SpecLeet == InitLeet /\ [][ApplyLeetLevel]_vars

\* ------------------------------------------------------------------------
\* generate_combinations of old_versions/Var5.py (CustomWordlistGenerator)
\* and of old_versions/Var6.py (EnhancedWordlistGenerator)
\* ------------------------------------------------------------------------

\* Var5: the base words and, for each pair of positions i < j of
\* list(base_words), both orders with every separator and without one
generate_combinations_var5(base_words, separators, order) ==
  LET words_list == ListOf(base_words, order)
  IN  base_words \cup
      UNION { UNION {
        {words_list[i] \o separators[s] \o words_list[j] : s \in 1..Len(separators)} \cup
        {words_list[j] \o separators[s] \o words_list[i] : s \in 1..Len(separators)} \cup
        {words_list[i] \o words_list[j], words_list[j] \o words_list[i]}
        : j \in (i + 1)..Len(words_list) }
        : i \in 1..Len(words_list) }

\* Var6, as the set its list(combinations) holds; separators <<>> stands for
\* None and for the empty list
generate_combinations_var6(words, strategy, separators) ==
  LET seps == IF separators = <<>> THEN << <<>> >> ELSE separators
      n == Len(words)
      triples == {t \in (1..n) \X (1..n) \X (1..n) :
                    t[1] # t[2] /\ t[1] # t[3] /\ t[2] # t[3]}
  IN  CASE words = <<>> -> {}
        [] words # <<>> /\ strategy = "simple" ->
             {words[p[1]] \o words[p[2]] : p \in {p \in (1..n) \X (1..n) : p[1] # p[2]}}
        [] words # <<>> /\ strategy = "separators" ->
             {words[i] \o seps[s] \o words[j] : i \in 1..n, j \in 1..n, s \in 1..Len(seps)}
        [] words # <<>> /\ strategy = "camelcase" ->
             UNION {{Title(words[i]) \o Title(words[j]), Lower(words[i]) \o Title(words[j])}
                    : i \in 1..n, j \in 1..n}
        [] words # <<>> /\ strategy = "three_word" ->
             IF n >= 3
             THEN UNION {{words[t[1]] \o words[t[2]] \o words[t[3]]} \cup
                         {words[t[1]] \o seps[s] \o words[t[2]] \o seps[s] \o words[t[3]]
                            : s \in 1..Len(seps)}
                         : t \in triples}
             ELSE {}
        [] OTHER -> {}

\* one call of Var5's generate_combinations
GenerateCombinationsVar5 ==
  /\ ui = "generate_combinations_var5"
  /\ pc = "start"
  /\ passwords' = generate_combinations_var5(data.base_words, data.separators, hash_order)
  /\ pc' = "returned"
  /\ UNCHANGED <<inputs, window, hash_order, date_info, vars_dict, rng_pos, filtered, output,
                 err, run, first_output>>

\* one call of Var6's generate_combinations
GenerateCombinationsVar6 ==
  /\ ui = "generate_combinations_var6"
  /\ pc = "start"
  /\ passwords' = generate_combinations_var6(data.words, data.strategy, data.separators)
  /\ pc' = "returned"
  /\ UNCHANGED <<inputs, window, hash_order, date_info, vars_dict, rng_pos, filtered, output,
                 err, run, first_output>>

\* Var5 on every set of up to four words with the separators of its prompt
\* and of its command line; Var6 on every list of up to three distinct words
\* under every strategy, without separators and with two
InitCombinations ==
  /\ \/ /\ ui = "generate_combinations_var5"
        /\ data \in {[base_words |-> W, separators |-> seps] :
                       W \in SUBSET {<<"a", "b">>, <<"c", "d">>, <<"x">>, <<"J", "o">>},
                       seps \in { << <<>> >>, << <<>>, <<".">>, <<"_">>, <<"-">> >>,
                                  << <<".">> >> }}
     \/ /\ ui = "generate_combinations_var6"
        /\ data \in {[words |-> w, strategy |-> st, separators |-> seps] :
                       w \in {w \in UNION {[1..k -> {<<"a", "b">>, <<"c", "d">>, <<"x">>}]
                                             : k \in 0..3} :
                                \A i, j \in 1..Len(w) : i # j => w[i] # w[j]},
                       st \in {"simple", "separators", "camelcase", "three_word"},
                       seps \in { <<>>, << <<>> >>, << <<".">>, <<"_">> >> }}
  /\ rng = <<1>>
  /\ Standalone

SpecCombinations ==
  InitCombinations /\ [][GenerateCombinationsVar5 \/ GenerateCombinationsVar6]_vars

\* ------------------------------------------------------------------------
\* old_versions/Var4.py MegaWordlistGenerator.parse_date_comprehensive and
\* old_versions/Var5.py CustomWordlistGenerator.parse_date_components
\* ------------------------------------------------------------------------

\* the month names of the C locale, lower-cased: %B of strftime and strptime;
\* %b is the first three letters
MonthNames ==
  << <<"j","a","n","u","a","r","y">>, <<"f","e","b","r","u","a","r","y">>,
     <<"m","a","r","c","h">>, <<"a","p","r","i","l">>, <<"m","a","y">>,
     <<"j","u","n","e">>, <<"j","u","l","y">>, <<"a","u","g","u","s","t">>,
     <<"s","e","p","t","e","m","b","e","r">>, <<"o","c","t","o","b","e","r">>,
     <<"n","o","v","e","m","b","e","r">>, <<"d","e","c","e","m","b","e","r">> >>

\* str(n) for 0 <= n <= 9999
DecimalStr(n) ==
  LET digit(d) == ASCII[d + 17]
  IN  IF n < 10 THEN <<digit(n)>>
      ELSE IF n < 100 THEN <<digit(n \div 10), digit(n % 10)>>
      ELSE IF n < 1000 THEN <<digit(n \div 100), digit((n \div 10) % 10), digit(n % 10)>>
      ELSE <<digit(n \div 1000), digit((n \div 100) % 10), digit((n \div 10) % 10),
             digit(n % 10)>>

\* The match of the regular expression _strptime builds for the directives
\* fmt[k..] against s from position at (1-based), as the regex engine finds
\* it: for each directive the alternatives in the order of the pattern (two
\* digits before one), backtracking when the rest does not match.  Gives
\* <<>> or the one match found, with the fields read.
RECURSIVE StrptimeMatch(_, _, _, _, _)
StrptimeMatch(fmt, k, s, at, got) ==
  IF k > Len(fmt) THEN << got @@ [end |-> at - 1] >>
  ELSE
    LET has(n) == at + n - 1 <= Len(s)
        digits(n) == has(n) /\ \A i \in 0..(n - 1) : IsDigit(s[at + i])
        d(i) == Ord[s[at + i]] - 48
        val(n) == IF n = 1 THEN d(0)
                  ELSE IF n = 2 THEN 10 * d(0) + d(1)
                  ELSE 1000 * d(0) + 100 * d(1) + 10 * d(2) + d(3)
        most == IF fmt[k] = "%d" THEN 31 ELSE 12
        spaces == IF has(1) /\ s[at] = " "
                  THEN CHOOSE n \in 1..(Len(s) - at + 1) :
                         /\ \A i \in 0..(n - 1) : s[at + i] = " "
                         /\ (has(n + 1) => s[at + n] # " ")
                  ELSE 0
        named == {m \in 1..12 :
                    \E len \in (IF fmt[k] = "%b" THEN {3} ELSE {Len(MonthNames[m])}) :
                      /\ has(len)
                      /\ Lower(SubSeq(s, at, at + len - 1)) = SubSeq(MonthNames[m], 1, len)}
        \* the alternatives of the directive in the order the engine tries
        \* them: the characters taken, the field set and its value
        tries ==
          CASE fmt[k] \in {"%d", "%m"} ->
                 (IF digits(2) /\ val(2) \in 1..most
                  THEN <<[n |-> 2, v |-> val(2)]>> ELSE <<>>)
                 \o (IF digits(1) /\ val(1) \in 1..9
                     THEN <<[n |-> 1, v |-> val(1)]>> ELSE <<>>)
                 \o (IF fmt[k] = "%d" /\ has(2) /\ s[at] = " " /\ IsDigit(s[at + 1])
                        /\ s[at + 1] # "0"
                     THEN <<[n |-> 2, v |-> Ord[s[at + 1]] - 48]>> ELSE <<>>)
            [] fmt[k] = "%Y" -> IF digits(4) THEN <<[n |-> 4, v |-> val(4)]>> ELSE <<>>
            [] fmt[k] = "%y" ->
                 IF digits(2)
                 THEN <<[n |-> 2, v |-> IF val(2) < 69 THEN 2000 + val(2) ELSE 1900 + val(2)]>>
                 ELSE <<>>
            [] fmt[k] \in {"%b", "%B"} ->
                 IF named = {} THEN <<>>
                 ELSE <<[n |-> IF fmt[k] = "%b" THEN 3
                               ELSE Len(MonthNames[CHOOSE m \in named : TRUE]),
                         v |-> CHOOSE m \in named : TRUE]>>
            [] fmt[k] = " " -> [i \in 1..spaces |-> [n |-> spaces + 1 - i, v |-> 0]]
            [] OTHER -> IF has(1) /\ s[at] = fmt[k] THEN <<[n |-> 1, v |-> 0]>> ELSE <<>>
        field == CASE fmt[k] = "%d" -> "day"
                   [] fmt[k] \in {"%m", "%b", "%B"} -> "month"
                   [] fmt[k] \in {"%Y", "%y"} -> "year"
                   [] OTHER -> "none"
        after(t) == StrptimeMatch(fmt, k + 1, s, at + t.n,
                                  IF field = "none" THEN got ELSE [got EXCEPT ![field] = t.v])
        first(matches) ==
          IF \A i \in DOMAIN matches : matches[i] = <<>> THEN <<>>
          ELSE matches[CHOOSE i \in DOMAIN matches :
                         matches[i] # <<>> /\ \A j \in 1..(i - 1) : matches[j] = <<>>]
        each(alts) == first([i \in DOMAIN alts |-> after(alts[i])])
    IN  each(tries)

\* datetime.strptime(date_str, fmt): the fields of the date, or ValueError
\* when the pattern does not match, when data remains after the match, or
\* when the fields are no date of the calendar
strptime(date_str, fmt) ==
  LET leap(y) == y % 4 = 0 /\ (y % 100 # 0 \/ y % 400 = 0)
      days(mo, y) == IF mo = 2 THEN (IF leap(y) THEN 29 ELSE 28)
                     ELSE IF mo \in {4, 6, 9, 11} THEN 30 ELSE 31
      checked(m) ==
        IF m = <<>> THEN [ValueError |-> TRUE]
        ELSE IF m[1].end # Len(date_str) THEN [ValueError |-> TRUE]
        ELSE IF m[1].year < 1 \/ m[1].day > days(m[1].month, m[1].year)
             THEN [ValueError |-> TRUE]
             ELSE [ValueError |-> FALSE, day |-> m[1].day, month |-> m[1].month,
                   year |-> m[1].year]
  IN  checked(StrptimeMatch(fmt, 1, date_str, 1, [day |-> 1, month |-> 1, year |-> 1900]))

\* the first format of the list that parses date_str, as a list of at most
\* one date: the loop 'for fmt in formats: try ... break / except ValueError'
FirstParsed(date_str, formats) ==
  LET first(results) ==
        IF \A f \in DOMAIN results : results[f].ValueError THEN <<>>
        ELSE <<results[CHOOSE f \in DOMAIN results :
                         ~results[f].ValueError /\ \A g \in 1..(f - 1) : results[g].ValueError]>>
  IN  first([f \in 1..Len(formats) |-> strptime(date_str, formats[f])])

\* re.search(r'(19\d{2}|20\d{2})', date_str): the leftmost match, as a list
\* of at most one str
YearSearch(date_str) ==
  LET hits == {i \in 1..(Len(date_str) - 3) :
                 /\ SubSeq(date_str, i, i + 1) \in {<<"1", "9">>, <<"2", "0">>}
                 /\ IsDigit(date_str[i + 2]) /\ IsDigit(date_str[i + 3])}
  IN  IF hits = {} THEN <<>>
      ELSE <<SubSeq(date_str, CHOOSE i \in hits : \A j \in hits : i <= j,
                    (CHOOSE i \in hits : \A j \in hits : i <= j) + 3)>>

\* strftime('%d') and strftime('%m'): two digits
TwoDigits(n) == IF n < 10 THEN <<"0">> \o DecimalStr(n) ELSE DecimalStr(n)

\* the formats of Var4 parse_date_comprehensive, in the order they are tried
formats_var4 ==
  << <<"%d","/","%m","/","%Y">>, <<"%m","/","%d","/","%Y">>,
     <<"%d","-","%m","-","%Y">>, <<"%m","-","%d","-","%Y">>,
     <<"%Y","-","%m","-","%d">>, <<"%d","/","%m","/","%y">>,
     <<"%m","/","%d","/","%y">>, <<"%y","-","%m","-","%d">>,
     <<"%Y","/","%m","/","%d">>, <<"%m","/","%d","/","%Y">>,
     <<"%d","%m","%Y">>, <<"%m","%d","%Y">>, <<"%Y","%m","%d">>,
     <<"%d","%m","%y">>, <<"%m","%d","%y">>,
     <<"%d"," ","%b"," ","%Y">>, <<"%d"," ","%B"," ","%Y">>,
     <<"%b"," ","%d"," ","%Y">>, <<"%B"," ","%d"," ","%Y">> >>

\* the formats of Var5 parse_date_components, in the order they are tried
formats_var5 ==
  << <<"%d","/","%m","/","%Y">>, <<"%m","/","%d","/","%Y">>,
     <<"%d","-","%m","-","%Y">>, <<"%m","-","%d","-","%Y">>,
     <<"%Y","-","%m","-","%d">>, <<"%d","%m","%Y">>, <<"%m","%d","%Y">> >>

\* Var4 parse_date_comprehensive, as the set its list(set(...)) holds
parse_date_comprehensive(date_str) ==
  LET joined(a, sep, b, c) == a \o <<sep>> \o b \o <<sep>> \o c
      patterns(day, month, year_full, year_short, month_name, month_full, tail) ==
              { day, month, year_full, year_short, month_name, month_full,
                day \o month, month \o day,
                day \o month \o year_short, month \o day \o year_short,
                day \o month \o year_full, month \o day \o year_full,
                year_short \o month \o day, year_full \o month \o day,
                year_short \o day \o month, year_full \o day \o month,
                joined(day, ".", month, year_short), joined(month, ".", day, year_short),
                joined(day, "_", month, year_short), joined(month, "_", day, year_short),
                joined(day, "-", month, year_short), joined(month, "-", day, year_short),
                Reverse(day), Reverse(month), Reverse(year_full),
                Reverse(day \o month), Reverse(month \o day),
                tail \o tail, tail \o day, tail \o month }
      of(dt, year_full) ==
        patterns(DecimalStr(dt.day), DecimalStr(dt.month), year_full,
                 TwoDigits(dt.year % 100), SubSeq(MonthNames[dt.month], 1, 3),
                 MonthNames[dt.month], Slice(year_full, 2, Len(year_full)))
      variations(parsed) ==
        IF parsed = <<>> THEN {} ELSE of(parsed[1], DecimalStr(parsed[1].year))
      extracted(found, vs) ==
        IF found # <<>> /\ found[1] \notin vs
        THEN {found[1], Slice(found[1], 2, 4)} ELSE {}
      result(vs) ==
        {p \in vs \cup extracted(YearSearch(date_str), vs)
           : p # <<>> /\ \E i \in 1..Len(p) : p[i] # " "}
  IN  IF date_str = <<>> THEN {}
      ELSE result(variations(FirstParsed(date_str, formats_var4)))

\* parse_date_components with the scan for a year run whether or not a
\* format matched; C25 must tell it from the code
parse_date_components_always_scans(date_str) ==
  LET joined(dd, mm, yyyy, yy) ==
        { dd, mm, yyyy, yy, dd \o mm \o yyyy, mm \o dd \o yyyy, yyyy \o mm \o dd }
      components(parsed) ==
        IF parsed = <<>> THEN {}
        ELSE joined(TwoDigits(parsed[1].day), TwoDigits(parsed[1].month),
                    DecimalStr(parsed[1].year), TwoDigits(parsed[1].year % 100))
      extracted(found) == IF found # <<>> THEN {found[1], Slice(found[1], 2, 4)} ELSE {}
      result(parts) == {c \in parts \cup extracted(YearSearch(date_str)) : c # <<>>}
  IN  IF date_str = <<>> THEN {}
      ELSE result(components(FirstParsed(date_str, formats_var5)))

\* Var5 parse_date_components, as the set its list(set(...)) holds
parse_date_components(date_str) ==
  LET joined(dd, mm, yyyy, yy) ==
        { dd, mm, yyyy, yy, dd \o mm \o yyyy, mm \o dd \o yyyy, yyyy \o mm \o dd }
      components(parsed) ==
        IF parsed = <<>> THEN {}
        ELSE joined(TwoDigits(parsed[1].day), TwoDigits(parsed[1].month),
                    DecimalStr(parsed[1].year), TwoDigits(parsed[1].year % 100))
      extracted(found) == IF found # <<>> THEN {found[1], Slice(found[1], 2, 4)} ELSE {}
      result(parts) ==
        {c \in parts \cup (IF parts = {} THEN extracted(YearSearch(date_str)) ELSE {})
           : c # <<>>}
  IN  IF date_str = <<>> THEN {}
      ELSE result(components(FirstParsed(date_str, formats_var5)))

\* one call of Var4's parse_date_comprehensive
ParseDateComprehensive ==
  /\ ui = "parse_date_comprehensive"
  /\ pc = "start"
  /\ passwords' = parse_date_comprehensive(data.date_str)
  /\ pc' = "returned"
  /\ UNCHANGED <<inputs, window, hash_order, date_info, vars_dict, rng_pos, filtered, output,
                 err, run, first_output>>

\* one call of Var5's parse_date_components
ParseDateComponents ==
  /\ ui = "parse_date_components"
  /\ pc = "start"
  /\ passwords' = parse_date_components(data.date_str)
  /\ pc' = "returned"
  /\ UNCHANGED <<inputs, window, hash_order, date_info, vars_dict, rng_pos, filtered, output,
                 err, run, first_output>>

\* both functions on dates written day first, month first and year first,
\* with and without separators, with two and four digits of year, on dates
\* with a month name, and on input no format parses
InitParseDate ==
  /\ ui \in {"parse_date_comprehensive", "parse_date_components"}
  /\ data \in
       {[date_str |-> s] : s \in
          {a \o sep \o b \o sep \o c :
             a \in {<<"0","1">>, <<"1","9">>, <<"2","0">>, <<"3","1">>, <<"7">>},
             b \in {<<"0","1">>, <<"1","2">>, <<"0","2">>, <<"2">>},
             c \in {<<"1","9","9","9">>, <<"2","0","0","1">>, <<"8","5">>, <<"0","1","9","9">>},
             sep \in {<<>>, <<"/">>, <<"-">>}}
          \cup {c \o sep \o b \o sep \o a :
             a \in {<<"0","1">>, <<"2","9">>},
             b \in {<<"0","2">>, <<"1","2">>},
             c \in {<<"1","9","8","5">>, <<"2","0","2","0">>, <<"1","9">>},
             sep \in {<<>>, <<"/">>, <<"-">>}}
          \cup { <<>>, <<"1","9","8","5">>, <<"a","b","c">>,
                 <<"b","o","r","n"," ","1","9","8","5">>,
                 <<"1","5"," ","J","u","n"," ","1","9","9","0">>,
                 <<"1","5"," "," ","j","u","n","e"," ","1","9","9","0">>,
                 <<"M","a","y"," ","1","9"," ","2","0","0","1">>,
                 <<"D","e","c","e","m","b","e","r"," ","2","0"," ","1","9","1","2">>,
                 <<"1","5",".","0","6",".","1","9","9","0">> }}
  /\ rng = <<1>>
  /\ Standalone

SpecParseDate == InitParseDate /\ [][ParseDateComprehensive \/ ParseDateComponents]_vars

\* ------------------------------------------------------------------------
\* Var1 WordlistGenerator.generate_advanced_combinations
\* ------------------------------------------------------------------------

\* self.leet_replacements, in the order of the dict
leet_replacements ==
  << [char |-> "a", subs |-> << <<"4">>, <<"@">>, <<"/", "<bslash>">> >>],
     [char |-> "b", subs |-> << <<"8">>, <<"1", "3">>, <<"|", "3">> >>],
     [char |-> "c", subs |-> << <<"(">>, <<"[">>, <<"<">> >>],
     [char |-> "e", subs |-> << <<"3">>, <<"&">> >>],
     [char |-> "g", subs |-> << <<"6">>, <<"9">> >>],
     [char |-> "h", subs |-> << <<"#">>, <<"|", "-", "|">> >>],
     [char |-> "i", subs |-> << <<"1">>, <<"!">>, <<"|">> >>],
     [char |-> "l", subs |-> << <<"1">>, <<"|">>, <<"7">> >>],
     [char |-> "o", subs |-> << <<"0">>, <<"(", ")">> >>],
     [char |-> "s", subs |-> << <<"5">>, <<"$">>, <<"z">> >>],
     [char |-> "t", subs |-> << <<"7">>, <<"+">> >>],
     [char |-> "z", subs |-> << <<"2">>, <<"7", "_">> >>] >>

\* Var1 apply_leet_speak, as the set its list(set(...)) holds
apply_leet_speak(word) ==
  LET keys == {leet_replacements[k].char : k \in 1..Len(leet_replacements)}
      subs(c) == Range(leet_replacements[CHOOSE k \in 1..Len(leet_replacements) :
                                           leet_replacements[k].char = c].subs)
      whole == UNION {{ReplaceStr(word, c, r) : r \in subs(c)}
                      : c \in {c \in keys : HasChar(word, c)}}
      cased == IF Len(word) <= 8
               THEN {Title(word), [i \in 1..Len(word) |-> UpperChar(word[i])]}
               ELSE {}
      at(i) == {SubSeq(word, 1, i - 1) \o r \o SubSeq(word, i + 1, Len(word))
                : r \in subs(word[i])}
      partial == IF Len(word) > 3 /\ HasAny(word, keys)
                 THEN at(CHOOSE i \in 1..Len(word) :
                           word[i] \in keys /\ \A j \in 1..(i - 1) : word[j] \notin keys)
                 ELSE {}
  IN  {word} \cup whole \cup cased \cup partial

\* Var1 add_number_patterns, as the set its list(set(...)) holds; no code
\* assigns self.birth_year, so the branch under hasattr never runs
add_number_patterns(word) ==
  LET numbers ==
        { <<"1">>, <<"1","2">>, <<"1","2","3">>, <<"1","2","3","4">>,
          <<"0">>, <<"0","0">>, <<"0","0","0">>, <<"0","0","0","0">>,
          <<"0","1">>, <<"0","0","7">>, <<"1","0","0">>, <<"2","0","0">>, <<"5","0","0">>,
          <<"6","9">>, <<"4","2","0">>, <<"6","6","6">>, <<"7","7","7">>, <<"8","8","8">>,
          <<"9","9","9">>, <<"2","0","2","3">>, <<"2","0","2","4">>, <<"2","0","2","5">> }
  IN  {word} \cup UNION {{word \o num, word \o <<"_">> \o num, num \o word,
                          num \o <<"_">> \o word} : num \in numbers}

\* Var1 add_special_chars, as the set its list(set(...)) holds
add_special_chars(word) ==
  {word} \cup UNION {{word \o <<c>>, <<c>> \o word, <<c>> \o word \o <<c>>,
                      ReplaceChar(word, "_", c), ReplaceChar(word, " ", c)}
                     : c \in {"!", "@", "#", "$", "%", "&", "*", "-", "_", "."}}

\* Var1 generate_advanced_combinations, as the set its sorted list holds
generate_advanced_combinations(base_words, leet, use_numbers, use_special_chars, max_length, min_length) ==
  LET leeted(ws) == IF leet THEN UNION {apply_leet_speak(w) : w \in ws} ELSE ws
      numbered(ws) == IF use_numbers THEN UNION {add_number_patterns(w) : w \in ws} ELSE ws
      specialed(ws) == IF use_special_chars THEN UNION {add_special_chars(w) : w \in ws}
                       ELSE ws
  IN  UNION {specialed(numbered(leeted({word})))
             : word \in {w \in Range(base_words) :
                           ~(Len(w) < min_length \/ Len(w) > max_length)}}

\* one call of generate_advanced_combinations
GenerateAdvancedCombinations ==
  /\ ui = "generate_advanced_combinations"
  /\ pc = "start"
  /\ passwords' = generate_advanced_combinations(data.base_words, data.use_leet,
                    data.use_numbers, data.use_special_chars, data.max_length, data.min_length)
  /\ pc' = "returned"
  /\ UNCHANGED <<inputs, window, hash_order, date_info, vars_dict, rng_pos, filtered, output,
                 err, run, first_output>>

\* the call on lists of base words shorter than, within and longer than the
\* length bounds, under every combination of the three switches, with the
\* default bounds of the command line and with tighter ones
InitAdvanced ==
  /\ ui = "generate_advanced_combinations"
  /\ data \in
       {[base_words |-> ws, use_leet |-> l, use_numbers |-> n, use_special_chars |-> s,
         min_length |-> b[1], max_length |-> b[2]] :
          ws \in { <<>>, << <<"x","y">> >>, << <<"J","o","h","n">> >>,
                   << <<"J","u","d","y">>, <<"m","u","_","x","1">> >>,
                   << <<"p","q","r","w","v","x","k","y","m">> >> },
          l \in BOOLEAN, n \in BOOLEAN, s \in BOOLEAN,
          b \in { <<4, 32>>, <<4, 8>>, <<3, 5>>, <<1, 4>> }}
  /\ rng = <<1>>
  /\ Standalone

SpecAdvanced == InitAdvanced /\ [][GenerateAdvancedCombinations]_vars

\* ------------------------------------------------------------------------
\* Properties
\* ------------------------------------------------------------------------

\* the pipeline has emitted its output sequence
Emitted == pc = "done"

\* C1: every candidate of the emitted sequence has a length between min_len
\* and max_len, whatever the profile and the stage flags.
C1_Bounds ==
  Emitted =>
    \A i \in 1..Len(output) : min_len <= Len(output[i]) /\ Len(output[i]) <= max_len

\* C1 happens: candidates were emitted although generation had produced
\* shorter and longer ones
C1_Witness ==
  /\ Emitted
  /\ output # <<>>
  /\ \E p \in passwords : Len(p) < min_len
  /\ \E p \in passwords : Len(p) > max_len

\* C2: when the wordlist is larger than max_words, save_wordlist completes
\* its sampling and the list it goes on to write has at most max_words
\* entries.
C2_SamplerBound ==
  (ui = "sampler" /\ pc # "start" /\ Cardinality(passwords) > max_out) =>
    (pc = "written" /\ err = "none" /\ Len(output) <= max_out)

\* C3: the second run of the program on the same profile, configuration and
\* random stream emits the sequence the first run emitted.
C3_Determinism ==
  (Emitted /\ run = 2) => output = first_output

\* the characters of the profile's text fields
InputChars ==
  UNION {Range(data[k]) :
           k \in DOMAIN data \ {"add_numbers", "use_specials", "use_leet", "specials"}}

\* C4: with use_specials false, an emitted candidate holds a character of
\* common_specials only if that character occurs in a profile field.
C4_FeatureGating ==
  (Emitted /\ ~use_specials) =>
    \A i \in 1..Len(output) :
      \A j \in 1..Len(output[i]) :
        output[i][j] \in Range(common_specials) => output[i][j] \in InputChars

\* C5: the emitted sequence holds no string twice.
C5_Uniqueness ==
  Emitted => Cardinality(Range(output)) = Len(output)

\* C5 happens: a sequence was emitted after two templates, or a string and
\* its title-case variant, had produced the same candidate
C5_Witness ==
  /\ Emitted
  /\ Len(output) > 1
  /\ \E i \in 1..Len(output) : Title(output[i]) = Capitalize(output[i])

\* the digits of a date string, in order
DigitsOf(date_str) == SelectSeq(date_str, LAMBDA c : c \in DigitChars)

birth_date == Get(data, "birth_date", <<>>)

\* C6: parse_human_date keeps the digits d of the date and branches on their
\* number: 8 give day d[0:2], month d[2:4], year d[4:8], year_short d[6:8];
\* 6 give day d[0:2], month d[2:4], year "20" + d[4:6], year_short d[4:6];
\* 4 give day d[0:2], month d[2:4] and neither year nor year_short.
C6_DateByDigitCount ==
  pc = "prepared" =>
    LET d == DigitsOf(birth_date)
    IN  /\ Len(d) = 8 =>
             /\ {"day", "month", "year", "year_short"} \subseteq DOMAIN date_info
             /\ date_info["day"] = <<d[1], d[2]>>
             /\ date_info["month"] = <<d[3], d[4]>>
             /\ date_info["year"] = <<d[5], d[6], d[7], d[8]>>
             /\ date_info["year_short"] = <<d[7], d[8]>>
        /\ Len(d) = 6 =>
             /\ {"day", "month", "year", "year_short"} \subseteq DOMAIN date_info
             /\ date_info["day"] = <<d[1], d[2]>>
             /\ date_info["month"] = <<d[3], d[4]>>
             /\ date_info["year"] = <<"2", "0", d[5], d[6]>>
             /\ date_info["year_short"] = <<d[5], d[6]>>
        /\ Len(d) = 4 =>
             /\ {"day", "month"} \subseteq DOMAIN date_info
             /\ date_info["day"] = <<d[1], d[2]>>
             /\ date_info["month"] = <<d[3], d[4]>>
             /\ "year" \notin DOMAIN date_info
             /\ "year_short" \notin DOMAIN date_info

\* C6 happens: "15/06/1990", written with separators, was parsed to
\* 15 / 06 / 1990 / 90
C6_Witness ==
  /\ pc = "prepared"
  /\ birth_date = <<"1", "5", "/", "0", "6", "/", "1", "9", "9", "0">>
  /\ date_info["day"] = <<"1", "5">>
  /\ date_info["month"] = <<"0", "6">>
  /\ date_info["year"] = <<"1", "9", "9", "0">>
  /\ date_info["year_short"] = <<"9", "0">>

\* a date string that has neither 4 nor 6 nor 8 digits
Unparsable(date_str) == Len(DigitsOf(date_str)) \notin {4, 6, 8}

\* the states of generate_smart_combinations after the date was parsed
InGeneration ==
  pc \in {"prepared", "expanded", "examples", "numbers", "specials", "leet", "generated"}

\* C7: a birth date that cannot be parsed, or is empty, gives no day, month,
\* year or year_short; the date slots are bound to the empty string and no
\* error is raised while generate_smart_combinations runs on.
C7_UnparsableDate ==
  (InGeneration /\ Unparsable(birth_date)) =>
    /\ \A k \in {"day", "month", "year", "year_short"} : Get(date_info, k, <<>>) = <<>>
    /\ \A k \in {"year", "year_short", "birth_day", "birth_month", "day", "month"} :
         vars_dict[k] = <<>>
    /\ err = "none"

\* C7 happens: generation ran to its end, with candidates, on the date "abcd"
C7_Witness ==
  /\ pc = "generated"
  /\ birth_date = <<"a", "b", "c", "d">>
  /\ passwords # {}
  /\ err = "none"

\* the profile field behind each optional slot
SlotField ==
  [spouse_initial |-> "spouse_name", child_name |-> "child_name",
   pet_name |-> "pet_name", nick |-> "nickname"]
    @@ [k \in InterestKeys |-> k]

\* the optional slots whose profile field is missing or empty
AbsentSlots ==
  {s \in DOMAIN SlotField :
     SlotField[s] \notin DOMAIN data \/ data[SlotField[s]] = <<>>}

\* C8: a template that references a slot whose profile field is absent adds
\* no candidate in the template loop (and the loop raises no error).
C8_MissingSlotSkip ==
  pc = "expanded" =>
    /\ err = "none"
    /\ \A i \in 1..Len(Patterns) :
         PatternSlots(Patterns[i]) \cap AbsentSlots # {} =>
           ExpandPattern(Patterns[i], vars_dict, add_numbers) = {}

\* the templates whose slots are all bound
BoundTemplates == {i \in 1..Len(Patterns) : ~RaisesKeyError(Patterns[i], vars_dict)}

\* the bound templates whose substituted string has 6 to 20 characters
AcceptedTemplates ==
  {i \in BoundTemplates :
     6 <= Len(Format(Patterns[i], vars_dict)) /\ Len(Format(Patterns[i], vars_dict)) <= 20}

\* C9: after the template loop, the substituted string of every bound
\* template of length 6..20 is a candidate, with its title-case and
\* capitalize variants; a template whose string is shorter or longer
\* contributes nothing: every candidate comes from an accepted template.
C9_TemplateAcceptance ==
  pc = "expanded" =>
    /\ \A i \in AcceptedTemplates :
         LET password == Format(Patterns[i], vars_dict)
         IN  {password, Title(password), Capitalize(password)} \subseteq passwords
    /\ passwords \subseteq
         UNION {ExpandPattern(Patterns[i], vars_dict, add_numbers) : i \in AcceptedTemplates}

\* C9 happens: john / doe / 15/06/1990 gave "johndoe1990", while another
\* bound template gave a string outside 6..20
C9_Witness ==
  /\ pc = "expanded"
  /\ first_name = <<"j", "o", "h", "n">>
  /\ <<"j", "o", "h", "n", "d", "o", "e", "1", "9", "9", "0">> \in passwords
  /\ <<"J", "o", "h", "n", "d", "o", "e", "1", "9", "9", "0">> \in passwords
  /\ BoundTemplates \ AcceptedTemplates # {}

\* the templates that hold the {special} placeholder
SpecialTemplates == {i \in 1..Len(Patterns) : "special" \in PatternSlots(Patterns[i])}

\* C10: 'special' is bound once, before the template loop, and the loop draws
\* nothing: every candidate the loop makes from a template with {special}
\* carries the one character bound in vars_dict.
C10_SpecialBoundOnce ==
  /\ pc \in {"prepared", "expanded"} =>
       IF use_specials
       THEN /\ rng_pos = 1
            /\ Len(vars_dict["special"]) = 1
            /\ vars_dict["special"][1] \in Range(common_specials)
       ELSE /\ rng_pos = 0
            /\ vars_dict["special"] = <<>>
  /\ pc = "expanded" =>
       \A i \in SpecialTemplates \cap AcceptedTemplates :
         Format(Patterns[i], vars_dict) \in passwords

\* C10 happens: with specials on, two different templates with {special}
\* were accepted in one invocation
C10_Witness ==
  /\ pc = "expanded"
  /\ use_specials
  /\ Cardinality({Format(Patterns[i], vars_dict) :
                    i \in SpecialTemplates \cap AcceptedTemplates}) > 1

\* the configuration the claim calls invalid
InvalidConfiguration == min_len > max_len \/ max_out <= 0

\* C11: under an invalid configuration (min_len > max_len or max_out <= 0)
\* generate_smart_combinations is never entered and no candidate set is
\* produced: the run stays at its start or ends in a reported error.
C11_EagerReject ==
  (ui \in {"cli", "gui"} /\ InvalidConfiguration) =>
    /\ pc \in {"start", "error"}
    /\ passwords = {}
    /\ filtered = {}

\* the profile has no text: no names, no date, no optional field
EmptyProfile ==
  \A k \in DOMAIN data \ {"add_numbers", "use_specials", "use_leet", "specials"} :
    data[k] = <<>>

\* C12: on an empty profile, whatever the three stage flags, no step raises
\* and the candidate set is empty after every step of generation and after
\* filtering; nothing is emitted.
C12_EmptyProfile ==
  (ui \in {"cli", "gui"} /\ EmptyProfile) =>
    /\ passwords = {}
    /\ filtered = {}
    /\ output = <<>>
    /\ err = "none"

\* C12 happens: the run on an empty profile came to its end with the number,
\* special and leet stages all enabled
C12_Witness ==
  /\ EmptyProfile
  /\ Emitted
  /\ add_numbers /\ use_specials /\ use_leet
  /\ vars_dict["special"] # <<>>

\* C13: a failure on one item never aborts the run: for every setting of the
\* filter options (min_strength > 0 included) no exception leaves a stage,
\* and the pipeline never ends in its error state.
C13_PerItemFailure ==
  ui \in {"cli", "gui"} => (err = "none" /\ pc # "error")

\* one step of the lifecycle: growth inside generation, shrinking after it
LifecycleStep ==
  /\ pc \in {"prepared", "expanded", "examples", "numbers", "specials", "leet"} =>
       passwords \subseteq passwords'
  /\ (pc = "generated" /\ pc' = "filtered") => filtered' \subseteq passwords
  /\ pc = "filtered" => filtered' \subseteq filtered

\* C14: every step of generate_smart_combinations after the template loop
\* keeps the candidates it found (the set only grows); the filter returns a
\* subset of the generated set and the size limit a subset of the filtered set.
C14_MonotoneLifecycle == [][LifecycleStep]_vars

\* C14 happens: the set grew in the special and leet stages, the filter then
\* dropped candidates and the size limit dropped some more
C14_Witness ==
  /\ pc = "limited"
  /\ use_specials /\ use_leet
  /\ filtered # {}
  /\ Cardinality(filtered) = max_out
  /\ Cardinality(analyze_and_filter(passwords, min_len, max_len)) > max_out
  /\ Cardinality(passwords) >
       Cardinality(ExpandTemplates(Patterns, vars_dict, add_numbers))

\* one step of the three optional stages
StageStep ==
  /\ pc = "examples" =>
       /\ pc' = "numbers"
       /\ ~add_numbers => passwords' = passwords
  /\ pc = "numbers" =>
       /\ pc' = "specials"
       /\ ~use_specials => passwords' = passwords
  /\ pc = "specials" =>
       /\ pc' = "leet"
       /\ ~use_leet => (passwords' = passwords /\ rng_pos' = rng_pos)

\* C15: a stage whose flag is false leaves the accumulated candidate set
\* exactly as it was, and the stages are stepped through in the order
\* numbers, specials, leet.
C15_DisabledStageNoOp == [][StageStep]_vars

\* C15 happens: the three stages were passed with the special stage disabled
\* between two enabled ones, on a set that held candidates
C15_Witness ==
  /\ pc = "leet"
  /\ add_numbers /\ ~use_specials /\ use_leet
  /\ passwords # {}
  /\ rng_pos > 0

\* one step of the size limit, in main / generate_passwords and in
\* save_wordlist
LimitStep ==
  /\ (pc = "filtered" /\ Cardinality(filtered) <= max_out) => filtered' = filtered
  /\ (ui = "sampler" /\ pc = "start" /\ Cardinality(passwords) <= max_out) =>
       /\ pc' = "written"
       /\ filtered' = passwords
       /\ Range(output') = passwords

\* C16: whenever the set handed to the size-limiting step has at most
\* max_out members, the step leaves it unchanged: nothing dropped, nothing
\* added.
C16_LimitActivation == [][LimitStep]_vars

\* C16 happens: save_wordlist has written a wordlist of exactly max_words
\* words, some of them in none of the three strata
C16_Witness ==
  /\ ui = "sampler"
  /\ pc = "written"
  /\ Cardinality(passwords) = max_out
  /\ passwords \ Strata(ListOf(passwords, hash_order)) # {}

\* the words the three strata of save_wordlist reserve
StratumPicks == Strata(ListOf(passwords, hash_order))

\* C17: when save_wordlist samples (the wordlist is larger than max_words)
\* and the three strata reserve fewer than max_words words, the list it
\* writes holds every reserved word and has exactly max_words entries, all
\* distinct members of the wordlist.
C17_StratifiedFill ==
  (/\ ui = "sampler"
   /\ pc # "start"
   /\ Cardinality(passwords) > max_out
   /\ Cardinality(StratumPicks) < max_out) =>
    /\ pc = "written"
    /\ err = "none"
    /\ Len(output) = max_out
    /\ Cardinality(Range(output)) = max_out
    /\ Range(output) \subseteq passwords
    /\ StratumPicks \subseteq Range(output)

\* C17 happens: a list was written that holds reserved words of a stratum and
\* randomly drawn words of none, while other words were left out
C17_Witness ==
  /\ ui = "sampler"
  /\ pc = "written"
  /\ Cardinality(passwords) > max_out
  /\ StratumPicks # {}
  /\ Cardinality(StratumPicks) < max_out
  /\ Range(output) \ StratumPicks # {}

\* C18: in the emitted sequence every string comes before its successor in
\* the order by length and, at equal length, by str comparison.
C18_FinalOrdering ==
  Emitted =>
    \A i \in 1..(Len(output) - 1) : LenLexLess(output[i], output[i + 1])

\* C18 happens: the emitted sequence has a tie of length broken by str order,
\* and a shorter string placed before a longer one that str order alone would
\* put first
C18_Witness ==
  /\ Emitted
  /\ \E i \in 1..(Len(output) - 1) :
       Len(output[i]) = Len(output[i + 1])
  /\ \E i \in 1..(Len(output) - 1) :
       Len(output[i]) < Len(output[i + 1]) /\ StrLess(output[i + 1], output[i])

\* S is the result of a completed run: every member passed analyze_and_filter
\* and the advanced filters, and the size limit was applied
CompleteResult(S) ==
  /\ \A pwd \in S :
       PassesFilter(pwd, min_len, max_len) /\ ReachesStrengthCheck(pwd, options)
  /\ max_out >= 0 => Cardinality(S) <= max_out

\* self.passwords is written in one step only, from the limited set, and the
\* display is scheduled only by the worker that has made that assignment
PublishStep ==
  /\ self_passwords' # self_passwords =>
       (pc = "limited" /\ pc' = "assigned" /\ self_passwords' = filtered)
  /\ after_queue'["update_output_display"] > after_queue["update_output_display"] =>
       (pc = "assigned" /\ self_passwords = filtered)

\* C19: in the window of the GUI, self.passwords and what the interaction
\* thread has read from it (the display, the saved list) are at every moment
\* a completed result, filtered and size-limited, never a set of the running
\* worker; self.passwords changes only by the worker's single assignment of
\* its limited set, and the display is scheduled only after that assignment.
C19_NoPartialResults ==
  /\ [](ui = "gui" =>
         /\ CompleteResult(self_passwords)
         /\ CompleteResult(displayed)
         /\ CompleteResult(Range(output)))
  /\ [][PublishStep]_vars

\* C19 happens: the second worker has generated its unfiltered candidates
\* while self.passwords still holds the result of the first, already saved
\* by the interaction thread
C19_Witness ==
  /\ workers = 1
  /\ run = 2
  /\ pc = "generated"
  /\ self_passwords # {}
  /\ Range(output) = self_passwords
  /\ \E pwd \in passwords : Len(pwd) < min_len
  /\ passwords # self_passwords

\* C20: on a profile with a field of StressLen characters and the number,
\* special and leet stages enabled, generate_smart_combinations and then
\* analyze_and_filter come to their end, without an error.
C20_Termination == <>(pc = "filtered" /\ err = "none")

\* C20 happens: the filter has returned on a profile with a field of
\* StressLen characters, all three stages enabled, after generation had built
\* candidates longer than that field
C20_Witness ==
  /\ pc = "filtered"
  /\ \E k \in StressFields : Len(Get(data, k, <<>>)) = StressLen
  /\ add_numbers /\ use_specials /\ use_leet
  /\ \E pwd \in passwords : Len(pwd) > StressLen
  /\ filtered # {}

\* pwd has n characters of set in a row, read off the string itself
RunOf(pwd, set, n) ==
  \E i \in 1..(Len(pwd) - n + 1) : \A j \in 0..(n - 1) : pwd[i + j] \in set

\* a candidate the rules of analyze_and_filter let through: the length rule,
\* a letter of a-z or A-Z, no three of !@#$%^&* in a row, no six digits in
\* a row
Acceptable(pwd) ==
  /\ min_len <= Len(pwd) /\ Len(pwd) <= max_len
  /\ \E i \in 1..Len(pwd) : pwd[i] \in AlphaChars
  /\ ~RunOf(pwd, {"!", "@", "#", "$", "%", "^", "&", "*"}, 3)
  /\ ~RunOf(pwd, DigitChars, 6)

C22_NumericAugmentation ==
  (pc = "examples" /\ add_numbers) =>
    \A new \in {add_number_variations(passwords, date_info, hash_order)} :
      \A pwd \in PrefixSet(passwords, NumberCommonPrefix, hash_order) :
        \A n \in 1..5 :
          /\ (pwd \o common_numbers[n]) \in new
          /\ (common_numbers[n] \o pwd) \in new
          /\ TrailingDigitsStart(pwd) < Len(pwd) =>
               (Slice(pwd, 0, TrailingDigitsStart(pwd)) \o common_numbers[n]) \in new

\* every combination of the cross-product the level builds for word
Exhaustive(word, level) ==
  IF level = 3
  THEN Joined([i \in 1..Len(word) |->
                 IF InLeetMaps(word[i]) THEN LeetSubs(word[i]) ELSE << <<word[i]>> >>], 1)
  ELSE Joined(char_options(word), 1)

\* C23: at levels 3 and 4 apply_leet_level builds the whole cross-product
\* only for a word with at most LeetCeiling substitutable characters; a word
\* with more of them gets random combinations instead: it still receives
\* variants, at most max_combinations of them, and not the whole
\* cross-product.
C23_LeetCeiling ==
  (ui = "apply_leet_level" /\ pc = "returned" /\ data.level \in {3, 4}) =>
    IF chars_to_replace(data.word) <= LeetCeiling
    THEN Exhaustive(data.word, data.level) \subseteq passwords
    ELSE /\ passwords # {data.word}
         /\ Cardinality(passwords) <= max_combinations + 1
         /\ ~(Exhaustive(data.word, data.level) \subseteq passwords)

\* the words handed to generate_combinations
CombinedWords ==
  IF ui = "generate_combinations_var5" THEN data.base_words ELSE Range(data.words)

\* the separators the call is configured with: none but the empty one for
\* Var6's strategy simple, and for a call without separators
CombinedSeparators ==
  IF ui = "generate_combinations_var6" /\ (data.strategy = "simple" \/ data.separators = <<>>)
  THEN {<<>>}
  ELSE Range(data.separators)

\* C24: generate_combinations of Var5, and of Var6 under the strategies
\* simple and separators, returns w1+s+w2 and w2+s+w1 for every two distinct
\* words and every configured separator s, and returns no word joined to
\* itself (w+s+w is returned only where it is also an input word or the join
\* of two distinct words).
C24_PairwiseCombination ==
  (/\ ui \in {"generate_combinations_var5", "generate_combinations_var6"}
   /\ pc = "returned"
   /\ ui = "generate_combinations_var6" => data.strategy \in {"simple", "separators"}) =>
    /\ \A w1, w2 \in CombinedWords : \A s \in CombinedSeparators :
         w1 # w2 => (w1 \o s \o w2) \in passwords
    /\ \A w \in CombinedWords : \A s \in CombinedSeparators :
         (w \o s \o w) \in passwords =>
           \/ ui = "generate_combinations_var5" /\ (w \o s \o w) \in CombinedWords
           \/ \E w1, w2 \in CombinedWords : \E t \in CombinedSeparators \cup {<<>>} :
                w1 # w2 /\ w1 \o t \o w2 = w \o s \o w

\* the date the first matching format of the function called reads from
\* the input, as a list of at most one date
ParsedDate ==
  FirstParsed(data.date_str,
              IF ui = "parse_date_comprehensive" THEN formats_var4 ELSE formats_var5)

\* a date written dd/mm/yyyy, which the first format of both functions
\* reads back and in which the only window of four digits is the year
DayMonthYear(dt) ==
  TwoDigits(dt.day) \o <<"/">> \o TwoDigits(dt.month) \o <<"/">>
    \o TwoDigits(dt.year \div 100) \o TwoDigits(dt.year % 100)

\* what the date read by the first matching format gives by itself: the
\* result of the function called for that date written dd/mm/yyyy
DateAlone ==
  IF ui = "parse_date_comprehensive"
  THEN parse_date_comprehensive(DayMonthYear(ParsedDate[1]))
  ELSE parse_date_components(DayMonthYear(ParsedDate[1]))

\* the leftmost token 19xx/20xx of the input and its last two digits
ScannedYear ==
  IF YearSearch(data.date_str) = <<>> THEN {}
  ELSE {YearSearch(data.date_str)[1], Slice(YearSearch(data.date_str)[1], 2, 4)}

\* C25 as it was stated: in Var4 parse_date_comprehensive and Var5
\* parse_date_components the scan for a token 19xx/20xx is used only when
\* no format matches: when a format matches, what is returned is what the
\* parsed date alone gives, with no year taken from another window of
\* digits of the input.
C25_BareYearFallback ==
  (/\ ui \in {"parse_date_comprehensive", "parse_date_components"}
   /\ pc = "returned"
   /\ ParsedDate # <<>>) =>
    passwords = DateAlone

\* C25, amended: Var5 parse_date_components scans for a token 19xx/20xx
\* only when no format matches.  Var4 parse_date_comprehensive scans every
\* input: when a format matches it returns what the parsed date gives and,
\* if the leftmost token 19xx/20xx of the input is not already part of
\* that, the token and its last two digits, and nothing else.  When no
\* format matches both return the scanned token and its last two digits.
C25_ScanBesideFormats ==
  (ui \in {"parse_date_comprehensive", "parse_date_components"} /\ pc = "returned") =>
    IF ParsedDate = <<>> THEN passwords = ScannedYear
    ELSE IF ui = "parse_date_components" THEN passwords = DateAlone
    ELSE /\ DateAlone \subseteq passwords
         /\ passwords \subseteq DateAlone \cup ScannedYear
         /\ passwords # DateAlone <=>
              (ScannedYear # {} /\ YearSearch(data.date_str)[1] \notin DateAlone)

\* Var4 has read a date and returns a year the date does not give
C25_Witness ==
  /\ ui = "parse_date_comprehensive"
  /\ pc = "returned"
  /\ ParsedDate # <<>>
  /\ passwords # DateAlone
  /\ \E year \in passwords \ DateAlone : Len(year) = 4

\* C26: each mutation stage of main_Cli reads a bounded prefix of the
\* accumulated set, so what a stage returns is bounded whatever the size of
\* its input: at most 1400 candidates from add_number_variations, at most
\* 3200 from add_special_variations, at most 200 from add_leet_variations.
C26_BoundedPrefix ==
  /\ (pc = "examples" /\ add_numbers) =>
       Cardinality(add_number_variations(passwords, date_info, hash_order)) <= 1400
  /\ (pc = "numbers" /\ use_specials) =>
       Cardinality(add_special_variations(passwords, Get(data, "specials", common_specials),
                                          hash_order)) <= 3200
  /\ (pc = "specials" /\ use_leet) =>
       Cardinality(add_leet_variations(passwords, hash_order, rng, rng_pos).new) <= 200

\* the special stage is about to read an accumulated set of more than five
\* times its prefix, and returns more candidates than the prefix has members
C26_Witness ==
  /\ pc = "numbers"
  /\ use_specials
  /\ Cardinality(passwords) > 5 * SpecialPrefix
  /\ Cardinality(add_special_variations(passwords, Get(data, "specials", common_specials),
                                        hash_order)) > SpecialPrefix

\* C27: every word Var1 generate_advanced_combinations returns, for every
\* list of base words and every combination of use_leet, use_numbers and
\* use_special_chars, has a length within [min_length, max_length].
C27_LengthOfResults ==
  (ui = "generate_advanced_combinations" /\ pc = "returned") =>
    \A word \in passwords : Len(word) >= data.min_length /\ Len(word) <= data.max_length

\* C28: at most one generation worker thread exists at any time in the GUI,
\* whatever the order of generate requests, worker steps and callbacks: a
\* request made while generation_in_progress is set starts no thread, and a
\* worker only runs with the flag set.
C28_SingleWorker ==
  /\ workers <= 1
  /\ workers > 0 => generation_in_progress

\* the second accepted request has its worker running, after the first
\* worker ended and the poller cleared the flag
C28_Witness ==
  /\ ui = "gui"
  /\ run > 1
  /\ workers = 1
  /\ generation_in_progress
  /\ pc = "leet"

\* C29: once a generation worker has ended, normally or through an
\* exception inside generate_passwords, the poller eventually sets
\* generation_in_progress back to false, so that a later request is accepted.
C29_NoLockOut ==
  (workers = 0 /\ generation_in_progress) ~> ~generation_in_progress

\* a worker has ended through the except branch and the flag is still set
C29_Witness ==
  /\ ui = "gui"
  /\ workers = 0
  /\ generation_in_progress
  /\ pc = "idle"
  /\ after_queue["showerror"] > 0
  /\ after_queue["check_generation_complete"] > 0

\* C30: if the pipeline raises inside the GUI worker, self.passwords keeps
\* the value it had before the run (it is assigned only by the step that
\* follows the size limit, after which the run no longer raises, and the
\* except branch leaves it alone), the error report is scheduled on the
\* interaction thread, and update_output_display is not scheduled.
C30_UnchangedOnError ==
  [][ /\ self_passwords' # self_passwords => (pc = "limited" /\ pc' = "assigned")
      /\ pc' = "error" => pc \notin {"limited", "assigned", "idle"}
      /\ (pc = "error" /\ pc' # "error") =>
           /\ self_passwords' = self_passwords
           /\ after_queue'["showerror"] = after_queue["showerror"] + 1
           /\ after_queue'["status_error"] = after_queue["status_error"] + 1
           /\ after_queue'["update_output_display"] = after_queue["update_output_display"]
    ]_vars

\* a run after a successful one has raised and its worker has ended: the
\* error report waits on the interaction thread, the display of the first
\* run has been shown and no other is scheduled, and self.passwords still
\* holds the result of the first run
C30_Witness ==
  /\ ui = "gui"
  /\ pc = "idle"
  /\ workers = 0
  /\ run > 1
  /\ err = "AttributeError"
  /\ after_queue["showerror"] > 0
  /\ after_queue["status_error"] > 0
  /\ after_queue["update_output_display"] = 0
  /\ passwords # {}
  /\ self_passwords # {}
  /\ displayed = self_passwords


====
